---- MODULE Spec2Model ----
(***************************************************************************)
(* lora_logger_module.c: configuration of the LoRa concentrator from the   *)
(* JSON configuration files, then the capture loop that fetches packets,   *)
(* writes one CSV row per packet to a rotating log file and sends one      *)
(* UniRec record per packet to the TRAP output interface.                  *)
(*                                                                         *)
(* Text is modelled as sequences: a CSV line is the sequence of its        *)
(* comma-separated fields, a hex string the sequence of its characters.    *)
(* Enumerations of loragw_hal.h and libtrap are kept by name.              *)
(***************************************************************************)
EXTENDS Integers, Sequences, FiniteSets, TLC

(***************************************************************************)
(* Bounds of the model                                                     *)
(***************************************************************************)
\* packets returned by one lgw_receive call (the code allows up to 16)
MaxBatch == 2
\* packets received during one run
MaxFrames == MaxBatch

(***************************************************************************)
(* Program constants                                                       *)
(***************************************************************************)
\* for (i = 0; i < LGW_RF_CHAIN_NB; ++i)
LGW_RF_CHAIN_NB == 2
\* for (i = 0; i < LGW_MULTI_NB; ++i)
LGW_MULTI_NB == 8
\* lgw_rxif_setconf(8, ifconf): the LoRa standard channel
IF_LORA_STD == 8
\* lgw_rxif_setconf(9, ifconf): the FSK channel
IF_FSK_STD == 9
\* if (time_check >= 8)
TIME_CHECK_PERIOD == 8
\* int log_rotate_interval = 3600
DEFAULT_ROTATE_INTERVAL == 3600
\* uint32_t band_width = -1: the all-ones 32-bit value, kept in its
\* two's-complement reading
UINT32_ERR == -1
\* the value lgw_receive returns on failure
LGW_HAL_ERROR == -1
\* datarate values of loragw_hal.h; a zeroed struct holds DR_UNDEFINED
DR_UNDEFINED == 0
DR_LORA_SF7 == 2
DR_LORA_SF8 == 4
DR_LORA_SF9 == 8
DR_LORA_SF10 == 16
DR_LORA_SF11 == 32
DR_LORA_SF12 == 64

(***************************************************************************)
(* Hexadecimal text                                                        *)
(***************************************************************************)
HexDigits == <<"0","1","2","3","4","5","6","7","8","9","A","B","C","D","E","F">>

\* sprintf(buff, "%02X", byte)
Hex2(b) == <<HexDigits[(b \div 16) + 1], HexDigits[(b % 16) + 1]>>

RECURSIVE HexPayload(_)
\* the characters the g-loop appends to payload[]: "%02X" of every byte
HexPayload(bytes) ==
    IF bytes = <<>> THEN <<>>
    ELSE Hex2(Head(bytes)) \o HexPayload(Tail(bytes))

RECURSIVE CsvPayloadFrom(_, _)
CsvPayloadFrom(bytes, j) ==
    IF bytes = <<>> THEN <<>>
    ELSE (IF (j > 0) /\ (j % 4 = 0) THEN <<"-">> ELSE <<>>)
         \o Hex2(Head(bytes)) \o CsvPayloadFrom(Tail(bytes), j + 1)

\* the j-loop: hex-encoded payload bundled in 32-bit words
CsvPayload(bytes) == CsvPayloadFrom(bytes, 0)

(***************************************************************************)
(* Packet classification (the switch statements of the log loop)           *)
(***************************************************************************)
StatusLabel(status) ==
    CASE status = "STAT_CRC_OK"    -> "CRC_OK"
      [] status = "STAT_CRC_BAD"   -> "CRC_BAD"
      [] status = "STAT_NO_CRC"    -> "NO_CRC"
      [] status = "STAT_UNDEFINED" -> "UNDEF"
      [] OTHER                     -> "ERR"

ModulationLabel(modulation) ==
    CASE modulation = "MOD_LORA" -> "LORA"
      [] modulation = "MOD_FSK"  -> "FSK"
      [] OTHER                   -> "ERR"

BandWidthHz(bandwidth) ==
    CASE bandwidth = "BW_500KHZ"    -> 500000
      [] bandwidth = "BW_250KHZ"    -> 250000
      [] bandwidth = "BW_125KHZ"    -> 125000
      [] bandwidth = "BW_62K5HZ"    -> 62500
      [] bandwidth = "BW_31K2HZ"    -> 31200
      [] bandwidth = "BW_15K6HZ"    -> 15600
      [] bandwidth = "BW_7K8HZ"     -> 7800
      [] bandwidth = "BW_UNDEFINED" -> 0
      [] OTHER                      -> UINT32_ERR

\* datarate is a DR_LORA_* code for a LoRa packet and a bit rate for an FSK one
SpreadingFactor(modulation, datarate) ==
    IF modulation = "MOD_LORA" THEN
        CASE datarate = DR_LORA_SF7  -> 7
          [] datarate = DR_LORA_SF8  -> 8
          [] datarate = DR_LORA_SF9  -> 9
          [] datarate = DR_LORA_SF10 -> 10
          [] datarate = DR_LORA_SF11 -> 11
          [] datarate = DR_LORA_SF12 -> 12
          [] OTHER                     -> UINT32_ERR
    ELSE IF modulation = "MOD_FSK" THEN datarate
    ELSE UINT32_ERR

CodeRate(coderate) ==
    CASE coderate = "CR_LORA_4_5"  -> 5
      [] coderate = "CR_LORA_4_6"  -> 6
      [] coderate = "CR_LORA_4_7"  -> 7
      [] coderate = "CR_LORA_4_8"  -> 8
      [] coderate = "CR_UNDEFINED" -> 0
      [] OTHER                     -> UINT32_ERR

(***************************************************************************)
(* Packets the concentrator may return (struct lgw_pkt_rx_s)               *)
(***************************************************************************)
LoraPkt ==
    [count_us |-> 1000, freq_hz |-> 868100000, rf_chain |-> 1, if_chain |-> 2,
     status |-> "STAT_CRC_OK", size |-> 5, modulation |-> "MOD_LORA",
     bandwidth |-> "BW_125KHZ", datarate |-> DR_LORA_SF9,
     coderate |-> "CR_LORA_4_5", rssi |-> -80, snr |-> 7,
     payload |-> <<64, 171, 205, 239, 1>>]

FskPkt ==
    [count_us |-> 2000, freq_hz |-> 868800000, rf_chain |-> 0, if_chain |-> 9,
     status |-> "STAT_NO_CRC", size |-> 2, modulation |-> "MOD_FSK",
     bandwidth |-> "BW_OTHER", datarate |-> 50000,
     coderate |-> "CR_UNDEFINED", rssi |-> -101, snr |-> -3,
     payload |-> <<0, 255>>]

\* a packet with enum values outside the known sets
ErrPkt ==
    [count_us |-> 3000, freq_hz |-> 869525000, rf_chain |-> 1, if_chain |-> 8,
     status |-> "STAT_OTHER", size |-> 1, modulation |-> "MOD_UNDEFINED",
     bandwidth |-> "BW_UNDEFINED", datarate |-> DR_LORA_SF7,
     coderate |-> "CR_OTHER", rssi |-> 0, snr |-> 12,
     payload |-> <<10>>]

\* the values a field of struct lgw_pkt_rx_s may hold: the known ones, the
\* undefined one, and one outside the enum
FrameBandwidths ==
    {"BW_500KHZ", "BW_250KHZ", "BW_125KHZ", "BW_62K5HZ", "BW_31K2HZ",
     "BW_15K6HZ", "BW_7K8HZ", "BW_UNDEFINED", "BW_OTHER"}
FrameCoderates ==
    {"CR_LORA_4_5", "CR_LORA_4_6", "CR_LORA_4_7", "CR_LORA_4_8",
     "CR_UNDEFINED", "CR_OTHER"}
FrameStatuses ==
    {"STAT_CRC_OK", "STAT_CRC_BAD", "STAT_NO_CRC", "STAT_UNDEFINED", "STAT_OTHER"}
FrameModulations == {"MOD_LORA", "MOD_FSK", "MOD_UNDEFINED"}
FrameDatarates ==
    {DR_UNDEFINED, DR_LORA_SF7, DR_LORA_SF8, DR_LORA_SF9, DR_LORA_SF10,
     DR_LORA_SF11, DR_LORA_SF12, 3, 50000}

\* frames that differ from LoraPkt in bandwidth and coderate, in modulation
\* and datarate, or in status
FrameKinds ==
    {[LoraPkt EXCEPT !.bandwidth = b, !.coderate = c] :
        b \in FrameBandwidths, c \in FrameCoderates}
    \cup {[LoraPkt EXCEPT !.modulation = m, !.datarate = d] :
        m \in FrameModulations, d \in FrameDatarates}
    \cup {[LoraPkt EXCEPT !.status = st] : st \in FrameStatuses}

\* the k-th packet of a batch
BatchPacket(k) ==
    CASE k % 3 = 1 -> LoraPkt
      [] k % 3 = 2 -> FskPkt
      [] OTHER     -> ErrPkt

\* the batch of n packets
Batch(n) == [k \in 1..n |-> BatchPacket(k)]


(***************************************************************************)
(* Configuration documents (parson JSON values)                            *)
(***************************************************************************)
\* a JSON value; json_value_get_type(NULL) is JSONError.  A number is a
\* double: n is its integral part (rounded toward zero) and f, in halves
\* and of the sign of the number, the rest, so that -0.5 is n = 0, f = -1
JNone == [t |-> "JSONError", b |-> FALSE, n |-> 0, f |-> 0, s |-> <<>>]
JBool(b) == [t |-> "JSONBoolean", b |-> b, n |-> 0, f |-> 0, s |-> <<>>]
JNum(n) == [t |-> "JSONNumber", b |-> FALSE, n |-> n, f |-> 0, s |-> <<>>]
JStr(s) == [t |-> "JSONString", b |-> FALSE, n |-> 0, f |-> 0, s |-> s]

\* the JSON number that is h halves: 15601 is 7800.5, -1 is -0.5
JHalves(h) ==
    LET n == IF h >= 0 THEN h \div 2 ELSE -((-h) \div 2)
    IN [JNum(n) EXCEPT !.f = h - 2 * n]

\* json_object_dotget_number: 0 unless the value is a number.  The double
\* is given by its integral part, which is what every integer cast of the
\* translator keeps of it
DotGetNumber(v) == IF v.t = "JSONNumber" THEN v.n ELSE 0

\* what the build may make of (uint32_t) d for a double d <= -1, which the
\* language leaves undefined: the value modulo 2^32, or 0
NegCastOutcomes == {"wraps", "saturates"}

\* (uint32_t) of the double with integral part n.  A uint32_t is held as
\* the 32-bit pattern read in two's complement: 2^32 + n is held as n
Uint32(n, negcast) == IF (n >= 0) \/ (negcast = "wraps") THEN n ELSE 0

\* a <= b between two uint32_t
Uint32Leq(a, b) == IF (a < 0) = (b < 0) THEN a <= b ELSE b < 0

\* (uint8_t) of a JSON number
Uint8(n) == n % 256

\* the keys of SX1301_conf that name a radio chain or a channel, in the
\* order parse_SX1301_configuration reads them
RadioKeys == {<<"radio", i>> : i \in 0..(LGW_RF_CHAIN_NB - 1)}
MultiKeys == {<<"chan_multiSF", i>> : i \in 0..(LGW_MULTI_NB - 1)}
StdKey == <<"chan_Lora_std", 0>>
FskKey == <<"chan_FSK", 0>>
SectionKeys == RadioKeys \cup MultiKeys \cup {StdKey, FskKey}

ParseOrder ==
    [i \in 1..LGW_RF_CHAIN_NB |-> <<"radio", i - 1>>]
    \o [i \in 1..LGW_MULTI_NB |-> <<"chan_multiSF", i - 1>>]
    \o <<StdKey, FskKey>>

\* the HAL call and index a section is submitted with
Target(key) ==
    CASE key[1] = "radio"         -> <<"lgw_rxrf_setconf", key[2]>>
      [] key[1] = "chan_multiSF"  -> <<"lgw_rxif_setconf", key[2]>>
      [] key[1] = "chan_Lora_std" -> <<"lgw_rxif_setconf", IF_LORA_STD>>
      [] key[1] = "chan_FSK"      -> <<"lgw_rxif_setconf", IF_FSK_STD>>

BoardTarget == <<"lgw_board_setconf", 0>>

\* a section of SX1301_conf: the value under the key and, when it is an
\* object, its sub-fields
SecAbsent ==
    [t |-> "JSONError", enable |-> JNone, freq |-> JNone, rssi_offset |-> JNone,
     type |-> JNone, tx_enable |-> JNone, radio |-> JNone, if |-> JNone,
     bandwidth |-> JNone, spread_factor |-> JNone, datarate |-> JNone]

SecObject == [SecAbsent EXCEPT !.t = "JSONObject"]

SX1255 == <<"S","X","1","2","5","5">>
SX1257 == <<"S","X","1","2","5","7">>

\* a typical enabled section for each kind of key
EnabledSection(key) ==
    CASE key[1] = "radio" ->
            [SecObject EXCEPT !.enable = JBool(TRUE),
                              !.freq = JNum(867500000 + 1000000 * key[2]),
                              !.rssi_offset = JHalves(IF key[2] = 0 THEN -331
                                                       ELSE 33554435),
                              !.type = JStr(SX1257),
                              !.tx_enable = JBool(key[2] = 0)]
      [] key[1] = "chan_multiSF" ->
            [SecObject EXCEPT !.enable = JBool(TRUE),
                              !.radio = JNum(key[2] % 2),
                              !.if = JNum(200000 * key[2] - 400000)]
      [] key[1] = "chan_Lora_std" ->
            [SecObject EXCEPT !.enable = JBool(TRUE), !.radio = JNum(0),
                              !.if = JNum(0), !.bandwidth = JNum(125000),
                              !.spread_factor = JNum(9)]
      [] key[1] = "chan_FSK" ->
            [SecObject EXCEPT !.enable = JBool(TRUE), !.radio = JNum(1),
                              !.if = JNum(300000), !.bandwidth = JNum(125000),
                              !.datarate = JNum(50000)]

DisabledSection == [SecObject EXCEPT !.enable = JBool(FALSE)]


\* a document: a file that fails to parse has no root object
NoSX1301 == [present |-> FALSE, lorawan_public |-> JNone, clksrc |-> JNone,
             sec |-> [k \in SectionKeys |-> SecAbsent]]

NoGateway == [present |-> FALSE, gateway_ID |-> JNone]

MissingFile == [exists |-> FALSE, valid |-> FALSE,
                SX1301_conf |-> NoSX1301, gateway_conf |-> NoGateway]


\* SX1301_conf with the sections of `absent` missing, those of `disabled`
\* present with enable false, and the others enabled
SX1301Conf(pub, clk, absent, disabled) ==
    [present |-> TRUE, lorawan_public |-> pub, clksrc |-> clk,
     sec |-> [k \in SectionKeys |->
                IF k \in absent THEN SecAbsent
                ELSE IF k \in disabled THEN DisabledSection
                ELSE EnabledSection(k)]]

Doc(sx, gw) == [exists |-> TRUE, valid |-> TRUE,
                SX1301_conf |-> sx, gateway_conf |-> gw]

GatewayConf(id) == [present |-> TRUE, gateway_ID |-> id]

(***************************************************************************)
(* HAL configuration structures                                            *)
(***************************************************************************)
\* memset(&boardconf, 0, sizeof boardconf)
ZeroBoardConf == [lorawan_public |-> FALSE, clksrc |-> 0]

\* memset(&rfconf, 0, sizeof (rfconf))
ZeroRfConf == [enable |-> FALSE, freq_hz |-> 0,
               rssi_offset |-> [m |-> 0, x |-> 0],
               type |-> "LGW_RADIO_TYPE_NONE", tx_enable |-> FALSE]

\* memset(&ifconf, 0, sizeof (ifconf))
ZeroIfConf == [enable |-> FALSE, rf_chain |-> 0, freq_hz |-> 0,
               bandwidth |-> "BW_UNDEFINED", datarate |-> DR_UNDEFINED]

\* one call of a lgw_*_setconf function: the structure it was given
SetConfCall(target, conf) == [target |-> target, conf |-> conf]

\* a reading of the flag that takes every value but false for true
TrueUnlessFalse(v) == (v.t # "JSONBoolean") \/ v.b

\* json_value_get_type(val) == JSONBoolean ? json_value_get_boolean(val) : false
BoolOrFalse(v) == (v.t = "JSONBoolean") /\ v.b

\* !strncmp(str, lit, 6) for a 6-character literal
HasPrefix6(str, lit) == (Len(str) >= 6) /\ (SubSeq(str, 1, 6) = lit)

BoardConf(conf) ==
    [lorawan_public |-> BoolOrFalse(conf.lorawan_public),
     clksrc |-> IF conf.clksrc.t = "JSONNumber" THEN Uint8(conf.clksrc.n) ELSE 0]

\* (float) of a JSON number: a float keeps 24 bits of mantissa and rounds to
\* the nearest, ties to the even mantissa.  The float is m * 2^x halves:
\* below 2^23 in magnitude the cast keeps the number and its half, x = 0;
\* from 2^23 on the float is a whole number, its mantissa q the 24 leading
\* bits of the integral part a, rounded by the rest of a and the half
FloatCast(v) ==
    LET a == IF v.n < 0 THEN -v.n ELSE v.n
        half == IF v.f < 0 THEN -v.f ELSE v.f
        sgn == IF v.n < 0 \/ v.f < 0 THEN -1 ELSE 1
        k == CHOOSE j \in 0..7 : /\ a \div 2^j < 2^24
                                 /\ (j = 0) \/ (a \div 2^j >= 2^23)
        e == 2^k
        q == a \div e
        rest == 2 * (a % e) + half
        up == (rest > e) \/ (rest = e /\ q % 2 = 1)
        q1 == IF up THEN q + 1 ELSE q
    IN IF a < 2^23 THEN [m |-> 2 * v.n + v.f, x |-> 0]
       ELSE IF q1 = 2^24 THEN [m |-> sgn * 2^23, x |-> k + 2]
       ELSE [m |-> sgn * q1, x |-> k + 1]

\* the rfconf built from a radio_<i> object; rssi_offset is a float
RadioConf(sec, negcast) ==
    IF ~BoolOrFalse(sec.enable) THEN ZeroRfConf
    ELSE [enable |-> TRUE,
          freq_hz |-> Uint32(DotGetNumber(sec.freq), negcast),
          rssi_offset |-> IF sec.rssi_offset.t = "JSONNumber"
                          THEN FloatCast(sec.rssi_offset)
                          ELSE [m |-> 0, x |-> 0],
          type |-> IF sec.type.t # "JSONString" THEN "LGW_RADIO_TYPE_NONE"
                   ELSE IF HasPrefix6(sec.type.s, SX1255) THEN "LGW_RADIO_TYPE_SX1255"
                   ELSE IF HasPrefix6(sec.type.s, SX1257) THEN "LGW_RADIO_TYPE_SX1257"
                   ELSE "LGW_RADIO_TYPE_NONE",
          tx_enable |-> BoolOrFalse(sec.tx_enable)]

\* str is NULL in strncmp(str, "SX1255", 6): the type of an enabled radio
\* is missing or not a string
RadioTypeIsNull(sec) == BoolOrFalse(sec.enable) /\ (sec.type.t # "JSONString")

\* the ifconf built from a chan_multiSF_<i> object
MultiSFConf(sec, negcast) ==
    IF ~BoolOrFalse(sec.enable) THEN ZeroIfConf
    ELSE [ZeroIfConf EXCEPT !.enable = TRUE,
                            !.rf_chain = Uint8(Uint32(DotGetNumber(sec.radio), negcast)),
                            !.freq_hz = DotGetNumber(sec.if)]

\* a standard channel that takes the next tier up, as the FSK channel does
StdBandwidthByTier(bw) ==
    IF Uint32Leq(bw, 125000) THEN "BW_125KHZ"
    ELSE IF Uint32Leq(bw, 250000) THEN "BW_250KHZ"
    ELSE IF Uint32Leq(bw, 500000) THEN "BW_500KHZ"
    ELSE "BW_UNDEFINED"

\* switch (bw) of the LoRa standard channel
StdBandwidth(bw) ==
    CASE bw = 500000 -> "BW_500KHZ"
      [] bw = 250000 -> "BW_250KHZ"
      [] bw = 125000 -> "BW_125KHZ"
      [] OTHER       -> "BW_UNDEFINED"

\* a switch (sf) that takes every value up to 7 for SF7
StdDatarateFrom6(sf) ==
    CASE sf \in 0..7 -> DR_LORA_SF7
      [] sf = 8  -> DR_LORA_SF8
      [] sf = 9  -> DR_LORA_SF9
      [] sf = 10 -> DR_LORA_SF10
      [] sf = 11 -> DR_LORA_SF11
      [] sf = 12 -> DR_LORA_SF12
      [] OTHER   -> DR_UNDEFINED

\* switch (sf) of the LoRa standard channel
StdDatarate(sf) ==
    CASE sf = 7  -> DR_LORA_SF7
      [] sf = 8  -> DR_LORA_SF8
      [] sf = 9  -> DR_LORA_SF9
      [] sf = 10 -> DR_LORA_SF10
      [] sf = 11 -> DR_LORA_SF11
      [] sf = 12 -> DR_LORA_SF12
      [] OTHER   -> DR_UNDEFINED

\* the ifconf built from the chan_Lora_std object
LoraStdConf(sec, negcast) ==
    IF ~BoolOrFalse(sec.enable) THEN ZeroIfConf
    ELSE [enable |-> TRUE,
          rf_chain |-> Uint8(Uint32(DotGetNumber(sec.radio), negcast)),
          freq_hz |-> DotGetNumber(sec.if),
          bandwidth |-> StdBandwidth(Uint32(DotGetNumber(sec.bandwidth), negcast)),
          datarate |-> StdDatarate(Uint32(DotGetNumber(sec.spread_factor), negcast))]

\* the if / else if chain of the FSK channel
FskBandwidth(bw) ==
    IF Uint32Leq(bw, 7800) THEN "BW_7K8HZ"
    ELSE IF Uint32Leq(bw, 15600) THEN "BW_15K6HZ"
    ELSE IF Uint32Leq(bw, 31200) THEN "BW_31K2HZ"
    ELSE IF Uint32Leq(bw, 62500) THEN "BW_62K5HZ"
    ELSE IF Uint32Leq(bw, 125000) THEN "BW_125KHZ"
    ELSE IF Uint32Leq(bw, 250000) THEN "BW_250KHZ"
    ELSE IF Uint32Leq(bw, 500000) THEN "BW_500KHZ"
    ELSE "BW_UNDEFINED"

\* the ifconf built from the chan_FSK object
FskConf(sec, negcast) ==
    IF ~BoolOrFalse(sec.enable) THEN ZeroIfConf
    ELSE [enable |-> TRUE,
          rf_chain |-> Uint8(Uint32(DotGetNumber(sec.radio), negcast)),
          freq_hz |-> DotGetNumber(sec.if),
          bandwidth |-> FskBandwidth(Uint32(DotGetNumber(sec.bandwidth), negcast)),
          datarate |-> Uint32(DotGetNumber(sec.datarate), negcast)]

\* the call made for a section that is a JSON object
SectionCall(key, sec, negcast) ==
    CASE key[1] = "radio" ->
            SetConfCall(Target(key), RadioConf(sec, negcast))
      [] key[1] = "chan_multiSF" ->
            SetConfCall(Target(key), MultiSFConf(sec, negcast))
      [] key[1] = "chan_Lora_std" ->
            SetConfCall(Target(key), LoraStdConf(sec, negcast))
      [] key[1] = "chan_FSK" ->
            SetConfCall(Target(key), FskConf(sec, negcast))

\* a translator that submits the zeroed structure for a missing section too
SubmittedAlways(sec) == sec.t \in {"JSONObject", "JSONError"}

\* whether the section under `key` is submitted to the HAL: a key that
\* holds no JSON object is skipped (continue, or the else branch not taken)
SectionSubmitted(sec) == sec.t = "JSONObject"

RECURSIVE ParseSections(_, _, _, _, _)
\* the four section blocks of parse_SX1301_configuration over keys[from..]:
\* the calls made, and whether the pass died in strncmp(NULL, ...)
ParseSections(conf, from, acc, nullcmp, negcast) ==
    IF from > Len(ParseOrder) THEN acc
    ELSE LET key == ParseOrder[from]
             sec == conf.sec[key]
         IN IF ~SectionSubmitted(sec)
            THEN ParseSections(conf, from + 1, acc, nullcmp, negcast)
            ELSE IF (key[1] = "radio") /\ RadioTypeIsNull(sec) /\ (nullcmp = "segv")
            THEN [acc EXCEPT !.crashed = TRUE]
            ELSE ParseSections(conf, from + 1,
                               [acc EXCEPT !.calls =
                                   Append(@, SectionCall(key, sec, negcast))],
                               nullcmp, negcast)

\* parse_SX1301_configuration(conf_file): how it ends and the HAL calls made
ParseSX1301Result(doc, nullcmp, negcast) ==
    IF ~doc.valid THEN [end |-> "exit", crashed |-> FALSE, calls |-> <<>>]
    ELSE IF ~doc.SX1301_conf.present
    THEN [end |-> "return -1", crashed |-> FALSE, calls |-> <<>>]
    ELSE LET board == SetConfCall(BoardTarget, BoardConf(doc.SX1301_conf))
             r == ParseSections(doc.SX1301_conf, 1,
                                [end |-> "return 0", crashed |-> FALSE,
                                 calls |-> <<board>>], nullcmp, negcast)
         IN IF r.crashed THEN [r EXCEPT !.end = "segv"] ELSE r


(***************************************************************************)
(* Gateway identity: a 64-bit value kept as four 16-bit words, most        *)
(* significant first                                                       *)
(***************************************************************************)
ZeroLgwm == <<0, 0, 0, 0>>

LowerHexDigits == <<"0","1","2","3","4","5","6","7","8","9","a","b","c","d","e","f">>

\* the value of a hexadecimal digit, -1 for any other character
HexValue(c) ==
    IF \E k \in 1..16 : HexDigits[k] = c
    THEN (CHOOSE k \in 1..16 : HexDigits[k] = c) - 1
    ELSE IF \E k \in 1..16 : LowerHexDigits[k] = c
    THEN (CHOOSE k \in 1..16 : LowerHexDigits[k] = c) - 1
    ELSE -1

RECURSIVE HexRun(_)
\* the values of the longest prefix of str made of hexadecimal digits
HexRun(str) ==
    IF (str = <<>>) \/ (HexValue(Head(str)) < 0) THEN <<>>
    ELSE <<HexValue(Head(str))>> \o HexRun(Tail(str))

RECURSIVE StripZeros(_)
StripZeros(nibs) ==
    IF (nibs # <<>>) /\ (Head(nibs) = 0) THEN StripZeros(Tail(nibs)) ELSE nibs

RECURSIVE PadLeft(_, _, _)
PadLeft(s, width, c) == IF Len(s) >= width THEN s ELSE PadLeft(<<c>> \o s, width, c)

Word16(n1, n2, n3, n4) == ((n1 * 16 + n2) * 16 + n3) * 16 + n4

RECURSIVE SkipSpaces(_)
\* the white space a conversion of sscanf skips first: every character of
\* isspace, "VT" standing for the vertical tab
SkipSpaces(str) ==
    IF (str # <<>>) /\ (Head(str) \in {" ", "\t", "\n", "\r", "\f", "VT"})
    THEN SkipSpaces(Tail(str)) ELSE str

\* 2^64 - id: the value of a digit string that follows a minus sign
Neg64(id) ==
    LET s4 == (65535 - id[4]) + 1
        s3 == (65535 - id[3]) + (s4 \div 65536)
        s2 == (65535 - id[2]) + (s3 \div 65536)
        s1 == (65535 - id[1]) + (s2 \div 65536)
    IN <<s1 % 65536, s2 % 65536, s3 % 65536, s4 % 65536>>

\* sscanf(str, "%llx", &ull) with ull = 0 before the call: white space, an
\* optional sign, an optional 0x and the hexadecimal digits that follow; no
\* digit leaves ull at 0, more than 64 bits saturate
ScanHex64(str) ==
    LET spaced == SkipSpaces(str)
        signed == (spaced # <<>>) /\ (Head(spaced) \in {"+", "-"})
        body == IF signed THEN Tail(spaced) ELSE spaced
        prefixed == /\ Len(body) >= 3
                    /\ body[1] = "0" /\ body[2] \in {"x", "X"}
                    /\ HexValue(body[3]) >= 0
        sig == StripZeros(HexRun(IF prefixed THEN Tail(Tail(body)) ELSE body))
        n == PadLeft(sig, 16, 0)
        mag == <<Word16(n[1], n[2], n[3], n[4]), Word16(n[5], n[6], n[7], n[8]),
                 Word16(n[9], n[10], n[11], n[12]),
                 Word16(n[13], n[14], n[15], n[16])>>
    IN IF Len(sig) > 16 THEN <<65535, 65535, 65535, 65535>>
       ELSE IF signed /\ (Head(spaced) = "-") THEN Neg64(mag)
       ELSE mag

\* a parse_gateway_configuration that keeps an identity once it is set
ParseGatewayFirstWins(doc, old) ==
    IF ~doc.valid THEN [end |-> "exit", lgwm |-> old]
    ELSE IF ~doc.gateway_conf.present THEN [end |-> "return -1", lgwm |-> old]
    ELSE IF (doc.gateway_conf.gateway_ID.t # "JSONString") \/ (old # ZeroLgwm)
    THEN [end |-> "return 0", lgwm |-> old]
    ELSE [end |-> "return 0", lgwm |-> ScanHex64(doc.gateway_conf.gateway_ID.s)]

\* parse_gateway_configuration(conf_file): how it ends and the lgwm it leaves
ParseGatewayResult(doc, old) ==
    IF ~doc.valid THEN [end |-> "exit", lgwm |-> old]
    ELSE IF ~doc.gateway_conf.present THEN [end |-> "return -1", lgwm |-> old]
    ELSE IF doc.gateway_conf.gateway_ID.t # "JSONString"
    THEN [end |-> "return 0", lgwm |-> old]
    ELSE [end |-> "return 0", lgwm |-> ScanHex64(doc.gateway_conf.gateway_ID.s)]

Nibbles4(w) == <<w \div 4096, (w \div 256) % 16, (w \div 16) % 16, w % 16>>

HexText(nibs) == [k \in 1..Len(nibs) |-> HexDigits[nibs[k] + 1]]

\* "%X" of the 32-bit value hi * 65536 + lo: no padding
FmtX(hi, lo) ==
    LET sig == StripZeros(Nibbles4(hi) \o Nibbles4(lo))
    IN HexText(IF sig = <<>> THEN <<0>> ELSE sig)

\* "%08X" of the 32-bit value hi * 65536 + lo
Fmt08X(hi, lo) ==
    LET sig == StripZeros(Nibbles4(hi) \o Nibbles4(lo))
        digits == IF sig = <<>> THEN <<0>> ELSE sig
    IN HexText(PadLeft(digits, 8, 0))

\* sprintf(lgwm_str, "%08X%08X", (uint32_t)(lgwm >> 32), (uint32_t)(lgwm & 0xFFFFFFFF))
LgwmStr(id) == Fmt08X(id[1], id[2]) \o Fmt08X(id[3], id[4])

(***************************************************************************)
(* Text of a CSV line: the sequence of its fields, each a sequence of      *)
(* characters or words                                                     *)
(***************************************************************************)
RECURSIVE DecDigits(_)
\* "%u" of a value >= 0
DecDigits(n) ==
    IF n < 10 THEN <<HexDigits[n + 1]>>
    ELSE DecDigits(n \div 10) \o <<HexDigits[(n % 10) + 1]>>

\* "%d"
FmtD(n) == IF n < 0 THEN <<"-">> \o DecDigits(-n) ELSE DecDigits(n)

\* "%+.0f" of a whole number
FmtSigned(n) == IF n < 0 THEN <<"-">> \o DecDigits(-n) ELSE <<"+">> \o DecDigits(n)

\* "%+5.1f" of a whole number
FmtSigned1(n) == PadLeft(FmtSigned(n) \o <<".", "0">>, 5, " ")

\* "\"%s\"" and the quoted labels
Quoted(text) == <<"\"">> \o text \o <<"\"">>

\* the header line open_log writes
HeaderRow ==
    [k \in 1..36 |-> Quoted(<< <<"gateway ID">>, <<"node MAC">>, <<"UTC timestamp">>,
        <<"us count">>, <<"frequency">>, <<"RF chain">>, <<"RX chain">>,
        <<"status">>, <<"size">>, <<"modulation">>, <<"bandwidth">>,
        <<"datarate">>, <<"coderate">>, <<"RSSI">>, <<"SNR">>, <<"payload">>,
        <<"messageType">>, <<"AppEUI">>, <<"DevEUI">>, <<"DevNonce">>, <<"MIC">>,
        <<"DevAddr">>, <<"AppNonce">>, <<"NetID">>, <<"DLSettings">>,
        <<"RxDelay">>, <<"CFList">>, <<"PHYPayload">>, <<"MHDR">>,
        <<"MACPayload">>, <<"FCtrl">>, <<"FHDR">>, <<"FCnt">>, <<"FPort">>,
        <<"FRMPayload">>, <<"FOpts">> >>[k])]

\* sprintf(fetch_timestamp, ...): the reading of the wall clock, in seconds
FetchTimestamp(t) == <<"T">> \o DecDigits(t)

\* the status label with the padding the code writes inside the field
StatusField(status) ==
    LET l == StatusLabel(status)
    IN Quoted(<<l>>) \o (CASE l = "CRC_OK" -> <<" ">>
                           [] l = "CRC_BAD" -> <<>>
                           [] l = "NO_CRC" -> <<" ">>
                           [] l = "UNDEF" -> <<" ", " ">>
                           [] l = "ERR" -> <<" ", " ", " ", " ">>)

ModulationField(modulation) ==
    LET l == ModulationLabel(modulation)
    IN Quoted(<<l>>) \o (IF l = "LORA" THEN <<>> ELSE <<" ">>)

\* the fields the log loop writes for packet p, in the order it writes them
CsvRow(id, ts, p) ==
    << Quoted(LgwmStr(id)),
       Quoted(<<>>),
       Quoted(ts),
       PadLeft(DecDigits(p.count_us), 10, " "),
       PadLeft(DecDigits(p.freq_hz), 10, " "),
       DecDigits(p.rf_chain),
       PadLeft(FmtD(p.if_chain), 2, " "),
       StatusField(p.status),
       DecDigits(p.size),
       ModulationField(p.modulation),
       FmtSigned(p.rssi),
       FmtSigned1(p.snr),
       Quoted(CsvPayload(SubSeq(p.payload, 1, p.size))) >>

\* strftime(iso_date, ..., "%Y%m%dT%H%M%SZ", gmtime(&now_time)) within the
\* first day of the clock
IsoDate(t) == <<"19700101T", t \div 3600, (t \div 60) % 60, t % 60, "Z">>

\* sprintf(log_file_name, "pktlog_%s_%s.csv", lgwm_str, iso_date)
LogFileName(idstr, t) == [prefix |-> "pktlog", id |-> idstr, date |-> IsoDate(t)]

\* FILE * log_file = NULL
NoName == [prefix |-> "", id |-> <<>>, date |-> <<"", 0, 0, 0, "">>]

\* the file system after `lines` are appended to the file `name`
\* (fopen(name, "a") creates the file when it does not exist)
AppendLines(files, name, lines) ==
    IF name \in DOMAIN files THEN [files EXCEPT ![name] = @ \o lines]
    ELSE files @@ (name :> lines)


(***************************************************************************)
(* State                                                                   *)
(***************************************************************************)
VARIABLES
    pc,                 \* where main is
    exit_status,        \* "running", or how the process ended
    conf_files,         \* debug_conf.json, global_conf.json, local_conf.json:
                        \* the document each holds, by name and parameter
    todo,               \* the parse_* calls main still has to make
    hal_rejects,        \* the setconf targets the HAL answers LGW_HAL_ERROR for
    hal_conf,           \* the configuration the HAL holds
    hal_started,        \* lgw_start succeeded and lgw_stop was not called
    hal_stops,          \* calls of lgw_stop
    last_pass,          \* the setconf calls of the last parse_SX1301_configuration
    quit_sig, exit_sig, stop,
    lgwm, lgwm_str,
    now_time, log_start_time, log_file, log_file_name,
    fs,                 \* the log files on disk: name -> lines
    log_buf,            \* the lines written to log_file and not flushed yet
    log_rotate_interval,
    opt_r,              \* the -r option of the command line: <<>> or <<seconds>>
    time_check, pkt_in_log,
    slept,              \* the nanoseconds the iteration under way has slept
    nb_pkt, rxpkt, i, fetch_timestamp,
    payload,            \* char payload[10000], up to its first NUL
    sent,               \* the last trap_send call: record, answer, packet number
    received,           \* the number of packets lgw_receive has returned
    rowlog,             \* the packet number of every row written, in order
    rotations           \* the files closed by rotation: name, count reported

confVars == <<conf_files, todo, hal_rejects, hal_conf, last_pass>>
halVars == <<hal_started, hal_stops>>
sigVars == <<quit_sig, exit_sig, stop>>
idVars == <<lgwm, lgwm_str>>
logVars == <<now_time, log_start_time, log_file, log_file_name, fs, log_buf,
             pkt_in_log, rotations>>
loopVars == <<time_check, nb_pkt, rxpkt, i, slept, fetch_timestamp, payload, sent,
              received, rowlog>>

vars == <<pc, exit_status, confVars, halVars, sigVars, idVars, logVars,
          log_rotate_interval, opt_r, loopVars>>

(***************************************************************************)
(* Inputs                                                                  *)
(***************************************************************************)
\* the end-to-end document of the specification: only chan_Lora_std is set
GatewayIdText == <<"0","0","0","0","0","0","0","0","A","A","B","B","C","C","D","D">>

EndToEndDoc ==
    Doc(SX1301Conf(JBool(TRUE), JNum(1), SectionKeys \ {StdKey}, {}),
        GatewayConf(JStr(GatewayIdText)))


\* the readings of the wall clock, in seconds: two consecutive seconds and
\* the second that lies the default interval after the later one
Times == {0, 1, DEFAULT_ROTATE_INTERVAL + 1}

\* the log directory when main starts: empty, or holding the file an earlier
\* run of the program opened under the same gateway ID in the second 0
EarlierDisks ==
    {<<>>, LogFileName(LgwmStr(ScanHex64(GatewayIdText)), 0) :> <<HeaderRow>>}

\* what payload[] may hold when main starts: an empty string, or whatever
\* the stack held up to its first NUL
StackGarbage == {<<>>, <<"?", "?">>}

\* what strncmp(NULL, ...) may do
NullStrOutcomes == {"segv", "nomatch"}

HalTargets == {BoardTarget} \cup {Target(k) : k \in SectionKeys}

ZeroHalConf ==
    [board |-> ZeroBoardConf,
     rxrf |-> [c \in 0..(LGW_RF_CHAIN_NB - 1) |-> ZeroRfConf],
     rxif |-> [c \in 0..IF_FSK_STD |-> ZeroIfConf]]

InitCommon ==
    /\ pc = "select"
    /\ exit_status = "running"
    /\ todo = <<>>
    /\ hal_conf = ZeroHalConf
    /\ hal_started = FALSE
    /\ hal_stops = 0
    /\ last_pass = <<>>
    /\ quit_sig = 0 /\ exit_sig = 0 /\ stop = 0
    /\ lgwm = ZeroLgwm
    /\ lgwm_str = <<>>
    /\ now_time = 0 /\ log_start_time = 0
    /\ log_file = NoName /\ log_file_name = NoName
    /\ log_buf = <<>>
    /\ time_check = 0 /\ pkt_in_log = 0
    /\ nb_pkt = 0 /\ rxpkt = <<>> /\ i = 0 /\ fetch_timestamp = <<>>
    /\ slept = 0
    /\ payload \in StackGarbage
    /\ sent = <<>> /\ received = 0 /\ rowlog = <<>> /\ rotations = <<>>

\* documents of the configuration passes: every section enabled; every
\* section present with enable false; only the radios and two multi-rate
\* channels, one of them disabled; radio_0 enabled without a "type" string;
\* no SX1301_conf object at all
FullDoc ==
    Doc(SX1301Conf(JBool(FALSE), JNum(0), {}, {}), GatewayConf(JStr(GatewayIdText)))

DisabledDoc ==
    Doc(SX1301Conf(JNone, JNone, {}, SectionKeys), GatewayConf(JNone))

SparseDoc ==
    Doc(SX1301Conf(JBool(TRUE), JNum(257),
                   SectionKeys \ (RadioKeys \cup {<<"chan_multiSF", 0>>,
                                                  <<"chan_multiSF", 3>>}),
                   {<<"radio", 1>>, <<"chan_multiSF", 3>>}),
        NoGateway)

UntypedRadioDoc ==
    LET sx == SX1301Conf(JBool(TRUE), JNum(1), SectionKeys \ RadioKeys, {})
    IN Doc([sx EXCEPT !.sec[<<"radio", 0>>].type = JNone],
           GatewayConf(JStr(<<"1", "f", "g">>)))

GatewayOnlyDoc == Doc(NoSX1301, GatewayConf(JStr(GatewayIdText)))

\* the bandwidths of the FSK tiers, in Hz
FskTierHz == {7800, 15600, 31200, 62500, 125000, 250000, 500000}

\* values of chan_FSK.bandwidth, in halves: around each tier, around zero,
\* below zero and above the last tier
FskBandwidths ==
    {2 * hz + d : hz \in FskTierHz, d \in -2..2}
        \cup {-2000000, -15600, -3, -2, -1, 0, 1, 2, 2000000, 2147483646}

\* a document whose chan_FSK is enabled with the bandwidth of h halves
FskBandwidthDoc(h) ==
    LET sx == SX1301Conf(JBool(TRUE), JNum(1), SectionKeys \ {FskKey}, {})
    IN Doc([sx EXCEPT !.sec[FskKey].bandwidth = JHalves(h)], NoGateway)

\* values of chan_Lora_std.spread_factor: the six factors, their
\* neighbours, the enum codes, negative and large numbers
SpreadFactors == (-2..16) \cup {32, 64, 2147483647}

\* a document whose chan_Lora_std is enabled with the spread_factor sf
StdSpreadFactorDoc(sf) ==
    LET sx == SX1301Conf(JBool(TRUE), JNum(1), SectionKeys \ {StdKey}, {})
    IN Doc([sx EXCEPT !.sec[StdKey].spread_factor = JNum(sf)], NoGateway)

\* a document whose chan_Lora_std is enabled with the bandwidth of h halves
StdBandwidthDoc(h) ==
    LET sx == SX1301Conf(JBool(TRUE), JNum(1), SectionKeys \ {StdKey}, {})
    IN Doc([sx EXCEPT !.sec[StdKey].bandwidth = JHalves(h)], NoGateway)

\* a document whose chan_Lora_std is enabled and has no spread_factor
StdNoSpreadFactorDoc ==
    LET sx == SX1301Conf(JBool(TRUE), JNum(1), SectionKeys \ {StdKey}, {})
    IN Doc([sx EXCEPT !.sec[StdKey].spread_factor = JNone], NoGateway)

\* what the enable field of a section that is not enabled may hold: false,
\* a number, a string, nothing
NotEnabledValues == <<JBool(FALSE), JNum(1), JStr(<<"t","r","u","e">>), JNone>>

\* a document whose sections all carry the sub-fields of an enabled
\* section, radio_1 without its type, under the k-th enable value
NotEnabledDoc(k) ==
    LET sx == SX1301Conf(JBool(TRUE), JNum(1), {}, {})
        typed == [sx EXCEPT !.sec[<<"radio", 1>>].type = JNone]
    IN Doc([typed EXCEPT !.sec =
                [key \in SectionKeys |->
                    [typed.sec[key] EXCEPT !.enable = NotEnabledValues[k]]]],
           NoGateway)

\* strings of gateway_ID: 16 digits, upper and lower case, the largest
\* identity, a short one, no hexadecimal digit, the empty string, a 0x
\* prefix, and identities with zero and non-zero digits in every position
GatewayIdTexts ==
    << GatewayIdText,
       <<"a","a","5","5","5","a","0","0","0","0","0","0","0","1","0","1">>,
       <<"F","F","F","F","F","F","F","F","F","F","F","F","F","F","F","F">>,
       <<"1","f">>,
       <<"z","z">>,
       <<>>,
       <<"0","x","1","F">>,
       <<"0">>,
       <<"0","1","2","3","4","5","6","7","8","9","A","B","C","D","E","F">>,
       <<"f","e","d","c","b","a","9","8","7","6","5","4","3","2","1","0">>,
       <<"8","0","0","0","0","0","0","0","0","0","0","0","0","0","0","0">>,
       <<"F","F","F","F","F","F","F","F">>,
       <<"1","0","0","0","0","0","0","0","0">>,
       <<"A","0","0","0","0","0","0","0","B">>,
       <<"1","0","0","0","0">>,
       <<"\r","1","f">>,
       <<"VT"," ","\f","-","1">> >>

\* a document with gateway_conf.gateway_ID the k-th string; for k = 0 with
\* a gateway_conf that has no gateway_ID; for k = -1 with no gateway_conf
GatewayIdDoc(k) ==
    Doc(NoSX1301,
        IF k < 0 THEN NoGateway
        ELSE IF k = 0 THEN GatewayConf(JNone)
        ELSE GatewayConf(JStr(GatewayIdTexts[k])))

GatewayDocuments == {<<"gateway_ID", k>> : k \in -1..Len(GatewayIdTexts)}

\* the content of a configuration file, by the name and the parameter the
\* model gives it
Document(id) ==
    CASE id[1] = "missing"       -> MissingFile
      [] id[1] = "invalid"       -> [MissingFile EXCEPT !.exists = TRUE]
      [] id[1] = "end-to-end"    -> EndToEndDoc
      [] id[1] = "full"          -> FullDoc
      [] id[1] = "disabled"      -> DisabledDoc
      [] id[1] = "sparse"        -> SparseDoc
      [] id[1] = "untyped radio" -> UntypedRadioDoc
      [] id[1] = "gateway only"  -> GatewayOnlyDoc
      [] id[1] = "chan_FSK.bandwidth" -> FskBandwidthDoc(id[2])
      [] id[1] = "chan_Lora_std.spread_factor" -> StdSpreadFactorDoc(id[2])
      [] id[1] = "chan_Lora_std.bandwidth" -> StdBandwidthDoc(id[2])
      [] id[1] = "no chan_Lora_std.spread_factor" -> StdNoSpreadFactorDoc
      [] id[1] = "sections not enabled" -> NotEnabledDoc(id[2])
      [] id[1] = "gateway_ID" -> GatewayIdDoc(id[2])

\* a document that takes no parameter
Named(name) == <<name, 0>>

DocumentNames ==
    {Named(name) : name \in {"missing", "invalid", "end-to-end", "full",
                             "disabled", "sparse", "untyped radio",
                             "gateway only"}}

\* the configuration files of the capture runs
LoopConfFiles ==
    { [debug |-> Named("missing"), global |-> Named("end-to-end"),
       local |-> Named("missing")],
      [debug |-> Named("missing"), global |-> Named("missing"),
       local |-> Named("missing")],
      [debug |-> Named("invalid"), global |-> Named("end-to-end"),
       local |-> Named("missing")] }

\* main as it is built: the rotation interval is the default
Init ==
    /\ InitCommon
    /\ conf_files \in LoopConfFiles
    /\ hal_rejects = {}
    /\ fs \in EarlierDisks
    /\ log_rotate_interval = DEFAULT_ROTATE_INTERVAL
    /\ opt_r = <<>>

\* main run with or without the -r option that usage() documents: the
\* interval is initialised to its default and no statement assigns it
InitOptR ==
    /\ InitCommon
    /\ conf_files \in LoopConfFiles
    /\ hal_rejects = {}
    /\ fs = <<>>
    /\ log_rotate_interval = DEFAULT_ROTATE_INTERVAL
    /\ opt_r \in {<<>>, <<-1>>, <<DEFAULT_ROTATE_INTERVAL>>}

\* the configuration files of the configuration passes
ConfFiles ==
    [debug : {Named("missing"), Named("sparse")}, global : DocumentNames,
     local : DocumentNames]

\* the setconf calls the HAL refuses in a run
RejectSets == {{}, {BoardTarget}, {Target(StdKey), Target(<<"radio", 1>>)}}

InitConf ==
    /\ InitCommon
    /\ conf_files \in ConfFiles
    /\ hal_rejects \in RejectSets
    /\ fs = <<>>
    /\ log_rotate_interval = DEFAULT_ROTATE_INTERVAL
    /\ opt_r = <<>>

(***************************************************************************)
(* Signals                                                                 *)
(***************************************************************************)

\* sleep_time = {0, 3000000}: 3 ms
SLEEP_NS == 3000000

\* what a handler does to main: between two calls it only runs; during
\* clock_nanosleep (sa_flags = 0) the call returns EINTR with part of
\* the 3 ms slept, its return value is not tested and the iteration goes on
\* to the for statement, which assigns i
Delivered ==
    \/ /\ pc' = pc /\ slept' = slept /\ i' = i
       /\ sigVars' # sigVars
    \/ /\ pc = "sleep"
       /\ pc' = "check" /\ slept' \in {0, SLEEP_NS - 1}
       /\ i' = 0

\* sig_handler(SIGQUIT)
SigQuit ==
    /\ exit_status = "running"
    /\ quit_sig' = 1
    /\ UNCHANGED <<exit_status, confVars, halVars, exit_sig, stop, idVars,
                   logVars, log_rotate_interval, opt_r, time_check,
                   nb_pkt, rxpkt, fetch_timestamp, payload, sent, received,
                   rowlog>>
    /\ Delivered

\* before TRAP_REGISTER_DEFAULT_SIGNAL_HANDLER() SIGINT and SIGTERM reach
\* sig_handler; after it, from the module's getopt loop on, they reach the
\* TRAP handler, which sets stop
SigIntTerm ==
    /\ exit_status = "running"
    /\ IF pc \in {"select", "parse", "start", "open", "trap"}
       THEN exit_sig' = 1 /\ stop' = stop
       ELSE stop' = 1 /\ exit_sig' = exit_sig
    /\ UNCHANGED <<exit_status, confVars, halVars, quit_sig, idVars,
                   logVars, log_rotate_interval, opt_r, time_check,
                   nb_pkt, rxpkt, fetch_timestamp, payload, sent, received,
                   rowlog>>
    /\ Delivered

\* what a reading of the wall clock may return: the clock can be set, so a
\* reading is not bound by the one before it
ClockReadings == Times

(***************************************************************************)
(* Startup: configuration files, concentrator, log file, TRAP              *)
(***************************************************************************)
\* the if / else if chain on access(..., R_OK)
ConfPlan(files) ==
    IF Document(files.debug).exists
    THEN << <<"SX1301", "debug">>, <<"gateway", "debug">> >>
    ELSE IF Document(files.global).exists
    THEN << <<"SX1301", "global">>, <<"gateway", "global">> >>
         \o (IF Document(files.local).exists
             THEN << <<"SX1301", "local">>, <<"gateway", "local">> >>
             ELSE <<>>)
    ELSE IF Document(files.local).exists
    THEN << <<"SX1301", "local">>, <<"gateway", "local">> >>
    ELSE <<>>

SelectConf ==
    /\ pc = "select"
    /\ IF ConfPlan(conf_files) = <<>>
       THEN pc' = "exited" /\ exit_status' = "EXIT_FAILURE" /\ todo' = <<>>
       ELSE pc' = "parse" /\ exit_status' = exit_status
            /\ todo' = ConfPlan(conf_files)
    /\ UNCHANGED <<conf_files, hal_rejects, hal_conf, last_pass, halVars,
                   sigVars, idVars, logVars, log_rotate_interval, opt_r, loopVars>>

\* the answer of a lgw_*_setconf call
SetConfRet(call) ==
    IF call.target \in hal_rejects THEN "LGW_HAL_ERROR" ELSE "LGW_HAL_SUCCESS"

RECURSIVE ApplyCalls(_, _)
\* the configuration the HAL holds after the calls: a rejected one is dropped
ApplyCalls(held, calls) ==
    IF calls = <<>> THEN held
    ELSE LET c == Head(calls)
             next ==
                IF SetConfRet(c) # "LGW_HAL_SUCCESS" THEN held
                ELSE IF c.target[1] = "lgw_board_setconf"
                THEN [held EXCEPT !.board = c.conf]
                ELSE IF c.target[1] = "lgw_rxrf_setconf"
                THEN [held EXCEPT !.rxrf[c.target[2]] = c.conf]
                ELSE [held EXCEPT !.rxif[c.target[2]] = c.conf]
         IN ApplyCalls(next, Tail(calls))

NextParsePc(rest) == IF rest = <<>> THEN "start" ELSE "parse"

\* parse_SX1301_configuration(conf_file)
ParseSX1301 ==
    /\ pc = "parse" /\ todo # <<>> /\ Head(todo)[1] = "SX1301"
    /\ \E nullcmp \in NullStrOutcomes, negcast \in NegCastOutcomes :
         LET r == ParseSX1301Result(Document(conf_files[Head(todo)[2]]),
                                    nullcmp, negcast)
         IN /\ last_pass' = r.calls
            /\ hal_conf' = ApplyCalls(hal_conf, r.calls)
            /\ CASE r.end = "exit" ->
                      pc' = "exited" /\ exit_status' = "EXIT_FAILURE" /\ todo' = todo
                 [] r.end = "segv" ->
                      pc' = "exited" /\ exit_status' = "SIGSEGV" /\ todo' = todo
                 [] OTHER ->
                      /\ todo' = Tail(todo)
                      /\ pc' = NextParsePc(Tail(todo))
                      /\ exit_status' = exit_status
    /\ UNCHANGED <<conf_files, hal_rejects, halVars, sigVars, idVars, logVars, log_rotate_interval, opt_r, loopVars>>

\* parse_gateway_configuration(conf_file)
ParseGateway ==
    /\ pc = "parse" /\ todo # <<>> /\ Head(todo)[1] = "gateway"
    /\ LET r == ParseGatewayResult(Document(conf_files[Head(todo)[2]]), lgwm)
       IN /\ lgwm' = r.lgwm
          /\ IF r.end = "exit"
             THEN pc' = "exited" /\ exit_status' = "EXIT_FAILURE" /\ todo' = todo
             ELSE /\ todo' = Tail(todo)
                  /\ pc' = NextParsePc(Tail(todo))
                  /\ exit_status' = exit_status
    /\ UNCHANGED <<conf_files, hal_rejects, hal_conf, last_pass, halVars,
                   sigVars, lgwm_str, logVars, log_rotate_interval, opt_r, loopVars>>

\* a main that goes on whatever lgw_start() answered
LgwStartUnchecked ==
    /\ pc = "start"
    /\ \E ok \in BOOLEAN :
         /\ pc' = "open" /\ exit_status' = exit_status
         /\ hal_started' = ok
    /\ UNCHANGED <<confVars, hal_stops, sigVars, idVars, logVars,
                   log_rotate_interval, opt_r, loopVars>>

\* i = lgw_start()
LgwStart ==
    /\ pc = "start"
    /\ \E ok \in BOOLEAN :
         IF ok THEN pc' = "open" /\ hal_started' = TRUE /\ exit_status' = exit_status
         ELSE pc' = "exited" /\ exit_status' = "EXIT_FAILURE"
              /\ hal_started' = hal_started
    /\ UNCHANGED <<confVars, hal_stops, sigVars, idVars, logVars,
                   log_rotate_interval, opt_r, loopVars>>

\* what fopen and the fprintf of the header may do
OpenOutcomes == {"ok", "fopen NULL", "fprintf < 0"}

\* fflush(log_file), and the flush fclose() and exit() make: the lines held
\* back reach the file
Flushed(files, name, lines) ==
    IF name = NoName THEN files ELSE AppendLines(files, name, lines)

\* open_log() with now_time = t and lgwm_str = idstr, over the files `files`:
\* fopen creates the file, the header stays in the buffer of the stream
OpenLog(files, idstr, t, outcome) ==
    LET name == LogFileName(idstr, t)
    IN /\ log_start_time' = t
       /\ log_file_name' = name
       /\ CASE outcome = "fopen NULL" ->
                 log_file' = NoName /\ fs' = files /\ log_buf' = <<>>
            [] outcome = "fprintf < 0" ->
                 /\ log_file' = name /\ log_buf' = <<>>
                 /\ fs' = AppendLines(files, name, <<>>)
            [] OTHER ->
                 /\ log_file' = name /\ log_buf' = <<HeaderRow>>
                 /\ fs' = AppendLines(files, name, <<>>)

\* a start that goes on whatever open_log() met
StartLogUnchecked ==
    /\ pc = "open"
    /\ lgwm_str' = LgwmStr(lgwm)
    /\ \E t \in ClockReadings, outcome \in OpenOutcomes :
         /\ now_time' = t
         /\ OpenLog(fs, LgwmStr(lgwm), t, outcome)
         /\ pc' = "trap" /\ exit_status' = exit_status
    /\ UNCHANGED <<confVars, halVars, sigVars, lgwm, pkt_in_log,
                   rotations, log_rotate_interval, opt_r, loopVars>>

\* sprintf(lgwm_str, ...); time(&now_time); open_log();
StartLog ==
    /\ pc = "open"
    /\ lgwm_str' = LgwmStr(lgwm)
    /\ \E t \in ClockReadings, outcome \in OpenOutcomes :
         /\ now_time' = t
         /\ OpenLog(fs, LgwmStr(lgwm), t, outcome)
         /\ IF outcome = "ok" THEN pc' = "trap" /\ exit_status' = exit_status
            ELSE pc' = "exited" /\ exit_status' = "EXIT_FAILURE"
    /\ UNCHANGED <<confVars, halVars, sigVars, lgwm, pkt_in_log,
                   rotations, log_rotate_interval, opt_r, loopVars>>

\* TRAP_DEFAULT_INITIALIZATION and TRAP_REGISTER_DEFAULT_SIGNAL_HANDLER.  The
\* first macro ends the process with status 0 on TRAP_E_HELP and with
\* EXIT_FAILURE when trap_parse_params or trap_init fails, and the end
\* flushes the open streams; the second is the last statement of the step
TrapInit ==
    /\ pc = "trap"
    /\ \E outcome \in {"ok", "TRAP_E_HELP", "TRAP error"} :
         IF outcome = "ok"
         THEN /\ pc' = "module" /\ exit_status' = exit_status
              /\ UNCHANGED <<fs, log_buf>>
         ELSE /\ pc' = "exited"
              /\ exit_status' = IF outcome = "TRAP_E_HELP" THEN "0"
                                 ELSE "EXIT_FAILURE"
              /\ fs' = Flushed(fs, log_file, log_buf) /\ log_buf' = <<>>
    /\ UNCHANGED <<confVars, halVars, sigVars, idVars, now_time,
                   log_start_time, log_file, log_file_name, pkt_in_log,
                   rotations, log_rotate_interval, opt_r, loopVars>>

\* the module's getopt loop, the output template and the output record: each
\* returns -1 when it fails, and getopt knows no option: a -r on the command
\* line is "Invalid arguments".  The return flushes the open streams.
ModuleInit ==
    /\ pc = "module"
    /\ \E outcome \in {"ok", "module error"} :
         /\ (outcome = "ok") => (opt_r = <<>>)
         /\ IF outcome = "ok"
            THEN /\ pc' = "loop" /\ exit_status' = exit_status
                 /\ UNCHANGED <<fs, log_buf>>
            ELSE /\ pc' = "exited" /\ exit_status' = "-1"
                 /\ fs' = Flushed(fs, log_file, log_buf) /\ log_buf' = <<>>
    /\ UNCHANGED <<confVars, halVars, sigVars, idVars, now_time,
                   log_start_time, log_file, log_file_name, pkt_in_log,
                   rotations, log_rotate_interval, opt_r, loopVars>>


(***************************************************************************)
(* The capture loop                                                        *)
(***************************************************************************)
\* a loop condition that reads the quit flag only
LoopConditionQuitOnly == quit_sig # 1

\* while ((quit_sig != 1) && (exit_sig != 1) && (!stop))
LoopCondition == (quit_sig # 1) /\ (exit_sig # 1) /\ (stop = 0)

\* the batches lgw_receive may still return in this run
Batches == {Batch(n) : n \in {m \in 0..MaxBatch : received + m <= MaxFrames}}

\* a main that takes the error value for an empty fetch
ReceiveErrorIgnored ==
    /\ pc' = "check" /\ exit_status' = exit_status
    /\ nb_pkt' = LGW_HAL_ERROR /\ i' = 0
    /\ UNCHANGED <<rxpkt, slept, fetch_timestamp, received, fs, log_buf>>

\* nb_pkt == LGW_HAL_ERROR: return EXIT_FAILURE, which flushes the open
\* streams
ReceiveError ==
    /\ pc' = "exited" /\ exit_status' = "EXIT_FAILURE"
    /\ nb_pkt' = LGW_HAL_ERROR
    /\ fs' = Flushed(fs, log_file, log_buf) /\ log_buf' = <<>>
    /\ UNCHANGED <<rxpkt, i, slept, fetch_timestamp, received>>

\* an empty fetch that goes on without a pause
ReceiveNoneUnpaced ==
    /\ pc' = "check" /\ exit_status' = exit_status
    /\ nb_pkt' = 0 /\ i' = 0
    /\ slept' = 0
    /\ UNCHANGED <<rxpkt, fetch_timestamp, received, fs, log_buf>>

\* nb_pkt == 0: main calls clock_nanosleep
ReceiveNone ==
    /\ pc' = "sleep" /\ exit_status' = exit_status
    /\ nb_pkt' = 0
    /\ slept' = 0
    /\ UNCHANGED <<rxpkt, i, fetch_timestamp, received, fs, log_buf>>

\* nb_pkt > 0: clock_gettime(CLOCK_REALTIME, &fetch_time) reads t and the
\* batch is stamped with it
ReceiveSome(batch, t) ==
    /\ pc' = "log" /\ exit_status' = exit_status
    /\ nb_pkt' = Len(batch) /\ rxpkt' = batch /\ i' = 0
    /\ fetch_timestamp' = FetchTimestamp(t)
    /\ slept' = 0
    /\ received' = received + Len(batch)
    /\ UNCHANGED <<fs, log_buf>>

\* the loop condition holds: nb_pkt = lgw_receive(ARRAY_SIZE(rxpkt), rxpkt)
Fetch ==
    /\ pc = "loop" /\ LoopCondition
    /\ \/ ReceiveError
       \/ ReceiveNone
       \/ \E batch \in Batches \ {<<>>}, t \in ClockReadings : ReceiveSome(batch, t)
    /\ UNCHANGED <<confVars, halVars, sigVars, idVars, now_time,
                   log_start_time, log_file, log_file_name, pkt_in_log,
                   rotations, log_rotate_interval, opt_r, time_check, payload, sent,
                   rowlog>>

\* clock_nanosleep(CLOCK_MONOTONIC, 0, &sleep_time, NULL) runs to its end;
\* the for statement that follows assigns i and its loop is empty
ClockNanosleep ==
    /\ pc = "sleep"
    /\ pc' = "check" /\ slept' = SLEEP_NS /\ i' = 0
    /\ UNCHANGED <<exit_status, confVars, halVars, sigVars, idVars, logVars,
                   log_rotate_interval, opt_r, time_check, nb_pkt,
                   rxpkt, fetch_timestamp, payload, sent, received,
                   rowlog>>

\* a row that is appended without being counted
PktInLogKept(count) == count

\* ++pkt_in_log
PktInLogNext(count) == count + 1

\* p = &rxpkt[i]
CurrentPacket == rxpkt[i + 1]

\* the number, among all packets received, of the packet rxpkt[i]
PacketNumber == received - nb_pkt + i + 1

\* the body of the for loop up to ++pkt_in_log: the CSV row, the hex payload,
\* fflush(log_file)
LogPacket ==
    /\ pc = "log"
    /\ LET p == CurrentPacket
       IN /\ fs' = Flushed(fs, log_file,
                           Append(log_buf, CsvRow(lgwm, fetch_timestamp, p)))
          /\ log_buf' = <<>>
          /\ payload' = payload \o HexPayload(SubSeq(p.payload, 1, p.size))
    /\ pkt_in_log' = PktInLogNext(pkt_in_log)
    /\ rowlog' = Append(rowlog, PacketNumber)
    /\ pc' = "send"
    /\ UNCHANGED <<exit_status, confVars, halVars, sigVars, idVars, now_time, log_start_time, log_file, log_file_name, rotations,
                   log_rotate_interval, opt_r, time_check, nb_pkt, rxpkt, i,
                   slept, fetch_timestamp, sent, received>>

\* the ur_set calls: the record handed to trap_send
OutputRecord(p, text, t) ==
    [BAD_WIDTH |-> BandWidthHz(p.bandwidth),
     SIZE |-> p.size,
     RSSI |-> p.rssi,
     CODE_RATE |-> CodeRate(p.coderate),
     SF |-> SpreadingFactor(p.modulation, p.datarate),
     TIMESTAMP |-> t,
     PHY_PAYLOAD |-> text]

\* what trap_send may answer: success, a timeout, or an error of the class
\* TRAP_DEFAULT_SEND_ERROR_HANDLING runs its error command for
SendResults == {"TRAP_E_OK", "TRAP_E_TIMEOUT", "TRAP_E_IO_ERROR"}

\* an error handling that leaves the for loop on a timeout too
AfterSendTimeoutBreaks(ret) ==
    IF ret = "TRAP_E_OK"
    THEN (IF i + 1 < nb_pkt THEN "log" ELSE "check")
    ELSE "check"

\* TRAP_DEFAULT_SEND_ERROR_HANDLING(ret, continue, break) inside the for
\* loop: where the loop goes after the answer ret for packet i
AfterSend(ret) ==
    IF ret \in {"TRAP_E_OK", "TRAP_E_TIMEOUT"}
    THEN (IF i + 1 < nb_pkt THEN "log" ELSE "check")
    ELSE "check"

\* the rest of the body of the for loop: the record, payload[0] = '\0',
\* trap_send and its error handling
SendRecord ==
    /\ pc = "send"
    /\ \E ret \in SendResults, t \in ClockReadings :
         /\ sent' = <<[rec |-> OutputRecord(CurrentPacket, payload, t),
                       ret |-> ret, pkt |-> PacketNumber]>>
         /\ pc' = AfterSend(ret)
         /\ i' = IF ret \in {"TRAP_E_OK", "TRAP_E_TIMEOUT"} THEN i + 1 ELSE i
    /\ payload' = <<>>
    /\ UNCHANGED <<exit_status, confVars, halVars, sigVars, idVars,
                   logVars, log_rotate_interval, opt_r, time_check, nb_pkt, rxpkt,
                   slept, fetch_timestamp, received, rowlog>>

\* a test that already rotates when the interval has just elapsed
RotationDueAtInterval(now, start, interval) == now - start >= interval

\* difftime(now_time, log_start_time) > log_rotate_interval
RotationDue(now, start, interval) == now - start > interval

\* a test that lets the counter pass 8 before the check runs
CheckDueLate(count) == count > TIME_CHECK_PERIOD

\* if (time_check >= 8), on the counter just incremented
CheckDue(count) == count >= TIME_CHECK_PERIOD

\* ++time_check; if (time_check >= 8) { ... }, where time(&now_time) reads t;
\* the iteration ends here
RotateCheck ==
    /\ pc = "check"
    /\ slept' = 0
    /\ IF CheckDue(time_check + 1)
       THEN \E t \in ClockReadings :
            /\ time_check' = 0
            /\ now_time' = t
            /\ IF RotationDue(t, log_start_time, log_rotate_interval)
               THEN /\ rotations' = Append(rotations, [name |-> log_file_name,
                                                       count |-> pkt_in_log])
                    /\ pkt_in_log' = 0
                    /\ \E outcome \in OpenOutcomes :
                         /\ OpenLog(Flushed(fs, log_file, log_buf),
                                    lgwm_str, t, outcome)
                         /\ IF outcome = "ok"
                            THEN pc' = "loop" /\ exit_status' = exit_status
                            ELSE pc' = "exited" /\ exit_status' = "EXIT_FAILURE"
               ELSE /\ pc' = "loop" /\ exit_status' = exit_status
                    /\ UNCHANGED <<log_start_time, log_file, log_file_name, fs,
                                   log_buf, pkt_in_log, rotations>>
       ELSE /\ time_check' = time_check + 1
            /\ pc' = "loop" /\ exit_status' = exit_status
            /\ UNCHANGED <<logVars>>
    /\ UNCHANGED <<confVars, halVars, sigVars, idVars,
                   log_rotate_interval, opt_r, nb_pkt, rxpkt, i,
                   fetch_timestamp, payload, sent, received, rowlog>>

\* an end of main that returns without lgw_stop() and fclose(log_file)
CleanupWithoutRelease ==
    /\ UNCHANGED <<hal_stops, hal_started, log_file>>
    /\ fs' = Flushed(fs, log_file, log_buf) /\ log_buf' = <<>>
    /\ pc' = "exited" /\ exit_status' = "0"

\* after the loop: TRAP finalisation, i = lgw_stop(); fclose(log_file); return 0
Cleanup ==
    /\ hal_stops' = hal_stops + 1
    /\ hal_started' = FALSE
    /\ log_file' = NoName
    /\ fs' = Flushed(fs, log_file, log_buf) /\ log_buf' = <<>>
    /\ pc' = "exited" /\ exit_status' = "0"

\* the loop condition fails: main runs to its end
LoopExit ==
    /\ pc = "loop" /\ ~LoopCondition
    /\ Cleanup
    /\ UNCHANGED <<confVars, sigVars, idVars, now_time, log_start_time,
                   log_file_name, pkt_in_log, rotations,
                   log_rotate_interval, opt_r, loopVars>>

Next ==
    \/ SigQuit \/ SigIntTerm
    \/ SelectConf \/ ParseSX1301 \/ ParseGateway \/ LgwStart \/ StartLog
    \/ TrapInit \/ ModuleInit
    \/ Fetch \/ ClockNanosleep \/ LogPacket \/ SendRecord \/ RotateCheck
    \/ LoopExit

Spec == Init /\ [][Next]_vars

SpecOptR == InitOptR /\ [][Next]_vars

\* the steps of the capture loop: none of them blocks for ever
LoopStep ==
    Fetch \/ ClockNanosleep \/ LogPacket \/ SendRecord \/ RotateCheck \/ LoopExit

\* a run over the end-to-end document, on an empty log directory
InitLive ==
    /\ Init
    /\ conf_files.global = Named("end-to-end")
    /\ conf_files.debug = Named("missing")
    /\ fs = <<>>

\* every reading of the wall clock returns 0: the run takes place within
\* one second
SteadyClock ==
    /\ now_time' = 0
    /\ fetch_timestamp' \in {<<>>, FetchTimestamp(0)}
    /\ (sent' # <<>>) => (sent'[1].rec.TIMESTAMP = 0)

NextLive == Next /\ SteadyClock

\* main as it is built, run within one second and never held up for ever:
\* no call of it blocks
SpecLive == InitLive /\ [][NextLive]_vars /\ WF_vars(LoopStep /\ SteadyClock)

\* a run on a front end that may refuse setconf calls
InitHal ==
    /\ InitCommon
    /\ conf_files \in LoopConfFiles
    /\ hal_rejects \in RejectSets
    /\ fs = <<>>
    /\ log_rotate_interval = DEFAULT_ROTATE_INTERVAL
    /\ opt_r = <<>>

SpecHal == InitHal /\ [][Next]_vars

\* the start of main up to lgw_start(), over the configuration documents
NextConf == SelectConf \/ ParseSX1301 \/ ParseGateway \/ LgwStart

SpecConf == InitConf /\ [][NextConf]_vars

\* the capture loop has fetched its first batch, of one frame, in the
\* second the log was opened in
InitFrame ==
    LET calls == ParseSX1301Result(EndToEndDoc, "nomatch", "wraps").calls
        id == ScanHex64(GatewayIdText)
        name == LogFileName(LgwmStr(id), 0)
    IN /\ pc = "log" /\ exit_status = "running"
       /\ conf_files = [debug |-> Named("missing"),
                        global |-> Named("end-to-end"),
                        local |-> Named("missing")]
       /\ todo = <<>> /\ hal_rejects = {}
       /\ last_pass = calls /\ hal_conf = ApplyCalls(ZeroHalConf, calls)
       /\ hal_started = TRUE /\ hal_stops = 0
       /\ quit_sig = 0 /\ exit_sig = 0 /\ stop = 0
       /\ lgwm = id /\ lgwm_str = LgwmStr(id)
       /\ now_time = 0 /\ log_start_time = 0
       /\ log_file = name /\ log_file_name = name
       /\ fs = (name :> <<>>) /\ log_buf = <<HeaderRow>>
       /\ log_rotate_interval = DEFAULT_ROTATE_INTERVAL
       /\ opt_r = <<>>
       /\ time_check = 0 /\ pkt_in_log = 0
       /\ nb_pkt = 1 /\ i = 0 /\ rxpkt \in {<<p>> : p \in FrameKinds}
       /\ fetch_timestamp = FetchTimestamp(0) /\ slept = 0
       /\ payload \in StackGarbage
       /\ sent = <<>> /\ received = 1 /\ rowlog = <<>> /\ rotations = <<>>

\* the body of the for loop over one frame of every kind
NextFrame == LogPacket \/ SendRecord

SpecFrame == InitFrame /\ [][NextFrame]_vars

\* the configuration files of the passes that probe one field of the
\* document: only global_conf.json exists
FieldDocuments ==
    {<<"chan_FSK.bandwidth", h>> : h \in FskBandwidths}
        \cup {<<"chan_Lora_std.spread_factor", sf>> : sf \in SpreadFactors}
        \cup {<<"chan_Lora_std.bandwidth", h>> : h \in FskBandwidths}
        \cup {Named("no chan_Lora_std.spread_factor")}
        \cup {<<"sections not enabled", k>> : k \in DOMAIN NotEnabledValues}

\* global_conf.json alone with one field probed; global_conf.json and
\* local_conf.json, or debug_conf.json ahead of them, with gateway_ID probed
FieldConfFiles ==
    {[debug |-> Named("missing"), global |-> doc, local |-> Named("missing")] :
        doc \in FieldDocuments}
    \cup [debug : {Named("missing")},
          global : GatewayDocuments \cup {Named("missing")},
          local : GatewayDocuments \cup {Named("missing")}]
    \cup [debug : GatewayDocuments, global : {<<"gateway_ID", 1>>},
          local : {<<"gateway_ID", 2>>}]

InitField ==
    /\ InitCommon
    /\ conf_files \in FieldConfFiles
    /\ hal_rejects = {}
    /\ fs = <<>>
    /\ log_rotate_interval = DEFAULT_ROTATE_INTERVAL
    /\ opt_r = <<>>

\* the start of main, up to the first log file, over documents one field
\* of which takes every value of a set
NextField == NextConf \/ StartLog

SpecField == InitField /\ [][NextField]_vars


(***************************************************************************)
(* Claims                                                                  *)
(***************************************************************************)
\* the last hand-off to the sink ended with an error other than a timeout
FatalSendSeen == (sent # <<>>) /\ (sent[1].ret \notin {"TRAP_E_OK", "TRAP_E_TIMEOUT"})

\* main is inside the capture loop
InLoop == pc \in {"loop", "sleep", "log", "send", "check"}

\* this step is an iteration's rotation check that reads the clock
ChecksClock == (pc = "check") /\ (time_check + 1 >= TIME_CHECK_PERIOD)

C2_HeaderOnceAndFirst ==
    \A name \in DOMAIN fs :
        \A k \in 1..Len(fs[name]) : (fs[name][k] = HeaderRow) <=> (k = 1)

\* C3: every frame of a received batch gets exactly one log row, in batch
\* order, written before the frame's record is handed to the sink; while the
\* loop keeps running no received frame is left without a row.
C3_EveryFrameLogged ==
    /\ rowlog = [k \in 1..Len(rowlog) |-> k]
    /\ (sent # <<>>) => (sent[1].pkt <= Len(rowlog))
    /\ (pc \in {"sleep", "check", "loop"}) => (Len(rowlog) = received)

\* C4: once the sink has answered a hand-off with a fatal failure the loop
\* aborts: no further batch is requested from the front end and no further
\* frame is logged or handed off.
C4_FatalSendAborts ==
    [][FatalSendSeen =>
          /\ ~((pc = "loop") /\ (pc' \in {"log", "sleep"}))
          /\ nb_pkt' = nb_pkt
          /\ rowlog' = rowlog
          /\ sent' = sent]_vars

\* the loop condition has failed: main leaves the loop and runs to its end
LeavesLoop == (pc = "loop") /\ (pc' = "exited") /\ ~LoopCondition

\* C5: when the loop exits because of the quit signal alone, lgw_stop() is
\* not called on the way out.
C5_QuitSkipsStop ==
    [][(LeavesLoop /\ (quit_sig = 1) /\ (exit_sig = 0) /\ (stop = 0))
          => (hal_stops' = hal_stops)]_vars

\* C6: when the loop exits on the graceful flag or on the framework's stop
\* flag, the log file is closed and the front end is released with one
\* lgw_stop() call before main returns.
C6_GracefulExitReleases ==
    [][(LeavesLoop /\ ((exit_sig = 1) \/ (stop = 1)))
          => /\ log_file' = NoName
             /\ fs' = Flushed(fs, log_file, log_buf)
             /\ ~hal_started'
             /\ hal_stops = 0 /\ hal_stops' = 1
             /\ exit_status' = "0"]_vars

\* a run that logged a frame and then left the loop on the stop flag alone
C6_Witness ==
    /\ pc = "exited" /\ exit_status = "0"
    /\ stop = 1 /\ quit_sig = 0 /\ exit_sig = 0
    /\ rowlog # <<>>
    /\ hal_stops = 1 /\ log_file = NoName

\* C7: when lgw_receive returns its error value the process ends with a
\* non-zero status in that iteration: afterwards no frame is logged, no
\* record is handed to the sink and no rotation check runs.
C7_ReceiveErrorTerminates ==
    /\ [](nb_pkt = LGW_HAL_ERROR => (pc = "exited" /\ exit_status = "EXIT_FAILURE"))
    /\ [][nb_pkt = LGW_HAL_ERROR =>
             UNCHANGED <<fs, rowlog, sent, time_check, now_time, rotations>>]_vars

\* lgw_receive failed after a frame had been logged and sent, with the next
\* rotation check one iteration away
C7_Witness ==
    /\ nb_pkt = LGW_HAL_ERROR
    /\ pc = "exited" /\ exit_status = "EXIT_FAILURE"
    /\ rowlog # <<>> /\ sent # <<>>
    /\ time_check = TIME_CHECK_PERIOD - 1

\* a parse_SX1301_configuration pass over the file PassedFile has returned
PassDone == (pc = "parse") /\ (todo # <<>>) /\ (Head(todo)[1] = "gateway")

\* a parse_SX1301_configuration pass has ended the process
PassDied == (pc = "exited") /\ (todo # <<>>) /\ (Head(todo)[1] = "SX1301")

PassedDoc == Document(conf_files[Head(todo)[2]])

PassedSection(key) == PassedDoc.SX1301_conf.sec[key]

\* the calls of the last pass made for the chain or channel of `key`
CallsFor(key) == {k \in 1..Len(last_pass) : last_pass[k].target = Target(key)}

ZeroConfOf(key) == IF key[1] = "radio" THEN ZeroRfConf ELSE ZeroIfConf

\* the pass dies only of a document that is no JSON or of the missing
\* "type" string of an enabled radio
DiesOnlyOfDocument ==
    PassDied =>
        \/ ~PassedDoc.valid
        \/ \E key \in RadioKeys : RadioTypeIsNull(PassedSection(key))

\* C8 as stated: a pass submits every chain and channel exactly once, the
\* sections absent from SX1301_conf as the zero-initialised default, and
\* does not fail on their account.
C8_AbsentSectionsSubmitted ==
    /\ DiesOnlyOfDocument
    /\ PassDone =>
         \A key \in SectionKeys :
            /\ Cardinality(CallsFor(key)) = 1
            /\ (PassedSection(key).t # "JSONObject") =>
                  \A k \in CallsFor(key) : last_pass[k].conf = ZeroConfOf(key)

\* C8 as amended: a pass submits nothing for a section absent from
\* SX1301_conf and does not fail on its account; every section present as an
\* object is submitted exactly once, as the zero-initialised default when it
\* is not enabled.
C8_PresentSectionsSubmitted ==
    /\ DiesOnlyOfDocument
    /\ PassDone =>
         \A key \in SectionKeys :
            IF PassedSection(key).t = "JSONObject"
            THEN /\ Cardinality(CallsFor(key)) = 1
                 /\ ~BoolOrFalse(PassedSection(key).enable) =>
                       \A k \in CallsFor(key) : last_pass[k].conf = ZeroConfOf(key)
            ELSE CallsFor(key) = {}

\* the pass over local_conf.json has returned, its document holding absent,
\* disabled and enabled sections, after the pass over global_conf.json
C8_Witness ==
    /\ PassDone
    /\ Head(todo)[2] = "local"
    /\ conf_files.local = Named("sparse")
    /\ CallsFor(<<"radio", 1>>) # {} /\ CallsFor(<<"chan_multiSF", 0>>) # {}
    /\ CallsFor(StdKey) = {}
    /\ hal_conf.rxif[IF_LORA_STD].enable

\* the value the log loop has for a column of the header
ColumnValue(column, id, ts, p) ==
    CASE column = "gateway ID"    -> Quoted(LgwmStr(id))
      [] column = "node MAC"      -> Quoted(<<>>)
      [] column = "UTC timestamp" -> Quoted(ts)
      [] column = "us count"      -> PadLeft(DecDigits(p.count_us), 10, " ")
      [] column = "frequency"     -> PadLeft(DecDigits(p.freq_hz), 10, " ")
      [] column = "RF chain"      -> DecDigits(p.rf_chain)
      [] column = "RX chain"      -> PadLeft(FmtD(p.if_chain), 2, " ")
      [] column = "status"        -> StatusField(p.status)
      [] column = "size"          -> DecDigits(p.size)
      [] column = "modulation"    -> ModulationField(p.modulation)
      [] column = "bandwidth"     -> FmtD(BandWidthHz(p.bandwidth))
      [] column = "datarate"      -> FmtD(SpreadingFactor(p.modulation, p.datarate))
      [] column = "coderate"      -> FmtD(CodeRate(p.coderate))
      [] column = "RSSI"          -> FmtSigned(p.rssi)
      [] column = "SNR"           -> FmtSigned1(p.snr)
      [] column = "payload"       -> Quoted(CsvPayload(SubSeq(p.payload, 1, p.size)))

\* a frame row whose i-th field is the value of the i-th header column, for
\* the 16 columns from "gateway ID" to "payload"
RowInHeaderOrder(id, ts, p) ==
    [k \in 1..16 |-> ColumnValue(HeaderRow[k][2], id, ts, p)]

PacketKinds == {LoraPkt, FskPkt, ErrPkt}

\* C9: every frame row of the log has its fields in the header's column
\* order: gateway ID, node MAC, UTC timestamp, microsecond counter,
\* frequency, RF chain, RX chain, status, size, modulation, bandwidth,
\* datarate, coderate, RSSI, SNR, payload.
C9_RowsInHeaderOrder ==
    \A name \in DOMAIN fs :
        \A k \in 1..Len(fs[name]) :
            (fs[name][k] # HeaderRow) =>
                \E p \in PacketKinds, t \in Times :
                    fs[name][k] = RowInHeaderOrder(lgwm, FetchTimestamp(t), p)

\* C10: the hex payload of every record handed to the sink is 2 * size
\* characters long and encodes only that frame's payload bytes, without
\* separators and without earlier content of the buffer; the LoRa SF9
\* 125 kHz frame of size 5 yields SF 9, bandwidth 125000 and 10 characters.
C10_PayloadIsFrameOnly ==
    (sent # <<>>) =>
        LET rec == sent[1].rec
        IN /\ Len(rec.PHY_PAYLOAD) = 2 * rec.SIZE
           /\ \E p \in PacketKinds :
                /\ p.size = rec.SIZE
                /\ rec.PHY_PAYLOAD = HexPayload(SubSeq(p.payload, 1, p.size))
           /\ (rec.SIZE = LoraPkt.size) =>
                /\ rec.SF = 9
                /\ rec.BAD_WIDTH = 125000
                /\ rec.PHY_PAYLOAD = <<"4","0","A","B","C","D","E","F","0","1">>

\* the capture loop and the initialisation before it run on an open log
LogInUse == (log_file # NoName) /\ (pc \in {"trap", "module", "loop", "sleep", "log", "send", "check"})

\* C11: a log file in use that took N frame rows since it was opened holds
\* exactly N + 1 lines, the header and one row per frame, and the row of a
\* frame is on disk, nothing held back in the stream, before the frame is
\* handed on and the next one is processed.
C11_HeaderPlusRows ==
    LogInUse =>
        /\ Len(fs[log_file]) + Len(log_buf) = pkt_in_log + 1
        /\ (pc = "send") =>
              /\ log_buf = <<>>
              /\ fs[log_file][Len(fs[log_file])]
                    = CsvRow(lgwm, fetch_timestamp, CurrentPacket)

\* main is at one of its fatal startup steps: choosing and parsing the
\* configuration documents, starting the front end, opening the first log
AtStartupStep == pc \in {"select", "parse", "start", "open"}

\* C12: a startup step that ends the process ends it with a non-zero status
\* and leaves nothing half done: the capture loop was never entered, no log
\* file is left open, and the front end is not left started.
C12_FatalStartupLeavesNothing ==
    [][(AtStartupStep /\ pc' = "exited") =>
          /\ exit_status' # "0"
          /\ log_file' = NoName
          /\ ~hal_started']_vars

\* C13: a rotation check under a non-negative interval R rotates the log if
\* and only if the clock it reads is more than R seconds past logStartTime;
\* the rotation reports the closed file with its row count, restarts the
\* count, sets logStartTime to the time read and opens the file named after
\* that time.
C13_RotateIffElapsed ==
    [][(ChecksClock /\ log_rotate_interval >= 0) =>
          /\ (rotations' # rotations)
                <=> (now_time' - log_start_time > log_rotate_interval)
          /\ (rotations' # rotations) =>
                /\ rotations' = Append(rotations, [name |-> log_file_name,
                                                   count |-> pkt_in_log])
                /\ log_buf \in {<<>>, <<HeaderRow>>}
                /\ fs'[log_file] = fs[log_file] \o log_buf
                /\ pkt_in_log' = 0
                /\ log_start_time' = now_time'
                /\ log_file_name' = LogFileName(lgwm_str, now_time')
                /\ (pc' = "loop") =>
                      /\ log_file' = log_file_name'
                      /\ log_file' \in DOMAIN fs'
                      /\ log_buf' = <<HeaderRow>>]_vars

\* a log that took a frame was rotated and the loop runs on the new file
C13_Witness ==
    /\ pc = "loop" /\ log_file # NoName
    /\ Len(rotations) = 1 /\ rotations[1].count > 0
    /\ log_file # rotations[1].name
    /\ log_start_time = now_time
    /\ now_time > DEFAULT_ROTATE_INTERVAL

\* the tier of the claim for a bandwidth of h halves: none below zero and
\* above 500000 Hz, else the smallest tier not below the converted value
FskTierLabel(hz) ==
    CASE hz = 7800 -> "BW_7K8HZ"    [] hz = 15600 -> "BW_15K6HZ"
      [] hz = 31200 -> "BW_31K2HZ"  [] hz = 62500 -> "BW_62K5HZ"
      [] hz = 125000 -> "BW_125KHZ" [] hz = 250000 -> "BW_250KHZ"
      [] hz = 500000 -> "BW_500KHZ"

ClaimedFskTier(h) ==
    LET above == {hz \in FskTierHz : hz >= h \div 2}
    IN IF (h < 0) \/ (above = {}) THEN "BW_UNDEFINED"
       ELSE FskTierLabel(CHOOSE hz \in above : \A other \in above : hz <= other)

\* the pass over global_conf.json has returned, and the document set
\* chan_FSK.bandwidth
FskPassDone ==
    /\ PassDone /\ Head(todo)[2] = "global"
    /\ conf_files.global[1] = "chan_FSK.bandwidth"

\* C14: the bandwidth configured for the FSK channel, converted to an
\* unsigned 32-bit integer, is submitted as the smallest tier not below it
\* (the tier itself for the seven tier values), and as undefined for every
\* value above 500000 and every negative value.
C14_FskBandwidthTiers ==
    FskPassDone =>
        hal_conf.rxif[IF_FSK_STD].bandwidth = ClaimedFskTier(conf_files.global[2])

\* the pass over global_conf.json has returned, and the document set, or
\* left out, chan_Lora_std.spread_factor
StdPassDone ==
    /\ PassDone /\ Head(todo)[2] = "global"
    /\ conf_files.global[1] \in {"chan_Lora_std.spread_factor",
                                 "no chan_Lora_std.spread_factor"}

\* the datarate the standard channel was submitted with
StdSubmittedDatarate == hal_conf.rxif[IF_LORA_STD].datarate

\* C15: a spread_factor of 7 to 12 on the standard channel is submitted as
\* the spreading-factor code of exactly that factor (the code the frame
\* classification reads as that factor again), and every other integer, and
\* a missing spread_factor, as the undefined datarate.
C15_StdSpreadFactor ==
    StdPassDone =>
        LET sf == conf_files.global[2]
        IN IF (conf_files.global[1] = "chan_Lora_std.spread_factor")
              /\ (sf \in 7..12)
           THEN /\ StdSubmittedDatarate = 2 ^ (sf - 6)
                /\ SpreadingFactor("MOD_LORA", StdSubmittedDatarate) = sf
           ELSE StdSubmittedDatarate = DR_UNDEFINED

\* the pass has submitted the standard channel of a document whose
\* spread_factor is 12
C15_Witness ==
    /\ StdPassDone
    /\ conf_files.global = <<"chan_Lora_std.spread_factor", 12>>
    /\ hal_conf.rxif[IF_LORA_STD].enable
    /\ StdSubmittedDatarate = DR_LORA_SF12

\* the pass under way or just ended is the one over a global_conf.json
\* whose sections are present and not enabled
NotEnabledDocPassed ==
    /\ conf_files.global[1] = "sections not enabled"
    /\ todo # <<>> /\ Head(todo)[2] = "global"

\* C16: a chain or channel section that is present with an enable field
\* that is false or no boolean has none of its other sub-fields read (the
\* pass does not die of the missing radio type), and is submitted once, at
\* the index of its chain or channel, as the record with enable false and
\* every other field zero.
C16_NotEnabledShortCircuits ==
    NotEnabledDocPassed =>
        /\ ~PassDied
        /\ PassDone =>
              \A key \in SectionKeys :
                  /\ Cardinality(CallsFor(key)) = 1
                  /\ \A k \in CallsFor(key) :
                        /\ last_pass[k].conf = ZeroConfOf(key)
                        /\ ~last_pass[k].conf.enable
                        /\ k = 1 + CHOOSE n \in DOMAIN ParseOrder :
                                      ParseOrder[n] = key

\* the pass over a document whose sections hold a number for enable has
\* returned, one call per section made
C16_Witness ==
    /\ NotEnabledDocPassed /\ PassDone
    /\ conf_files.global[2] = 2
    /\ PassedSection(<<"radio", 0>>).freq.n > 0
    /\ Len(last_pass) = 1 + Cardinality(SectionKeys)

\* the identities the strings of GatewayIdTexts stand for, zero for those
\* that are no hexadecimal number
ClaimedIds ==
    << <<0, 0, 43707, 52445>>,
       <<43605, 23040, 0, 257>>,
       <<65535, 65535, 65535, 65535>>,
       <<0, 0, 0, 31>>,
       <<0, 0, 0, 0>>,
       <<0, 0, 0, 0>>,
       <<0, 0, 0, 31>>,
       <<0, 0, 0, 0>>,
       <<291, 17767, 35243, 52719>>,
       <<65244, 47768, 30292, 12816>>,
       <<32768, 0, 0, 0>>,
       <<0, 0, 65535, 65535>>,
       <<0, 1, 0, 0>>,
       <<0, 10, 0, 11>>,
       <<0, 0, 1, 0>>,
       <<0, 0, 0, 31>>,
       <<65535, 65535, 65535, 65535>> >>

\* the parameters of the parsed documents that hold a gateway_ID string, in
\* the order main parses them
DefinedIds ==
    LET plan == ConfPlan(conf_files)
        ids == [k \in 1..Len(plan) |-> conf_files[plan[k][2]]]
    IN SelectSeq(ids, LAMBDA id : (id[1] = "gateway_ID") /\ (id[2] >= 1))

\* every configuration file has been parsed, all of them gateway_ID documents
GatewayPassesDone ==
    /\ pc = "start"
    /\ \A f \in DOMAIN conf_files :
          conf_files[f][1] \in {"gateway_ID", "missing"}

\* C17: after the configuration passes the gateway identity is zero when no
\* parsed document holds a gateway_ID or the string does not parse as a
\* hexadecimal number, and else the 64-bit value of the string of the last
\* parsed document that holds one.
C17_GatewayIdentity ==
    GatewayPassesDone =>
        lgwm = IF DefinedIds = <<>> THEN ZeroLgwm
               ELSE ClaimedIds[DefinedIds[Len(DefinedIds)][2]]

\* global_conf.json and local_conf.json both hold a gateway_ID, and the
\* identity is that of local_conf.json
C17_Witness ==
    /\ GatewayPassesDone
    /\ conf_files.global = <<"gateway_ID", 1>>
    /\ conf_files.local = <<"gateway_ID", 2>>
    /\ conf_files.debug = Named("missing")
    /\ lgwm = <<43605, 23040, 0, 257>>

\* the value of a string of upper-case hexadecimal digits, -1 when a
\* character is none
UpperHexValue(text) ==
    LET digit(c) == IF \E k \in 1..16 : HexDigits[k] = c
                    THEN (CHOOSE k \in 1..16 : HexDigits[k] = c) - 1 ELSE -1
        value[k \in 0..Len(text)] ==
            IF k = 0 THEN 0
            ELSE IF (value[k - 1] < 0) \/ (digit(text[k]) < 0) THEN -1
            ELSE 16 * value[k - 1] + digit(text[k])
    IN value[Len(text)]

\* main has formatted the identity and called open_log()
IdentityFormatted == pc \in {"trap", "exited"} /\ lgwm_str # <<>>

\* C18: the identity string is 16 upper-case hexadecimal characters, the
\* upper 32 bits of the identity and then its lower 32 bits, each padded
\* with zeros to 8 digits; the log file name and the gateway ID field of a
\* row carry that string.
C18_IdentityString ==
    IdentityFormatted =>
        /\ Len(lgwm_str) = 16
        /\ \A k \in 1..4 :
              UpperHexValue(SubSeq(lgwm_str, 4 * k - 3, 4 * k)) = lgwm[k]
        /\ log_file_name.id = lgwm_str
        /\ CsvRow(lgwm, FetchTimestamp(now_time), LoraPkt)[1] = Quoted(lgwm_str)

\* the first log file is open under an identity whose upper and lower
\* halves both need padding
C18_Witness ==
    /\ pc = "trap" /\ log_file # NoName
    /\ lgwm = <<0, 10, 0, 11>>
    /\ log_file.id = <<"0","0","0","0","0","0","0","A","0","0","0","0","0","0","0","B">>

\* what the claim has the classification give for a bandwidth, a datarate
\* and a code rate
ClaimedBandWidth(bandwidth) ==
    CASE bandwidth = "BW_500KHZ" -> 500000 [] bandwidth = "BW_250KHZ" -> 250000
      [] bandwidth = "BW_125KHZ" -> 125000 [] bandwidth = "BW_62K5HZ" -> 62500
      [] bandwidth = "BW_31K2HZ" -> 31200  [] bandwidth = "BW_15K6HZ" -> 15600
      [] bandwidth = "BW_7K8HZ" -> 7800    [] bandwidth = "BW_UNDEFINED" -> 0
      [] OTHER -> UINT32_ERR

ClaimedSF(modulation, datarate) ==
    IF modulation = "MOD_FSK" THEN datarate
    ELSE IF modulation # "MOD_LORA" THEN UINT32_ERR
    ELSE IF datarate = DR_UNDEFINED THEN 0
    ELSE IF \E sf \in 7..12 : datarate = 2 ^ (sf - 6)
    THEN CHOOSE sf \in 7..12 : datarate = 2 ^ (sf - 6)
    ELSE UINT32_ERR

ClaimedCodeRate(coderate) ==
    CASE coderate = "CR_LORA_4_5" -> 5 [] coderate = "CR_LORA_4_6" -> 6
      [] coderate = "CR_LORA_4_7" -> 7 [] coderate = "CR_LORA_4_8" -> 8
      [] coderate = "CR_UNDEFINED" -> 0
      [] OTHER -> UINT32_ERR

ClaimedStatus(status) ==
    CASE status = "STAT_CRC_OK" -> "CRC_OK" [] status = "STAT_CRC_BAD" -> "CRC_BAD"
      [] status = "STAT_NO_CRC" -> "NO_CRC" [] status = "STAT_UNDEFINED" -> "UNDEF"
      [] OTHER -> "ERR"

ClaimedModulation(modulation) ==
    CASE modulation = "MOD_LORA" -> "LORA" [] modulation = "MOD_FSK" -> "FSK"
      [] OTHER -> "ERR"

\* C19: the classification of a frame never fails and gives, for each of
\* its enums, the label of a known value (the Hz of a bandwidth tier, 7 to
\* 12 for LoRa SF7 to SF12, the datarate itself for an FSK frame, 5 to 8
\* for the code rates), 0 for the undefined value, and the all-ones value,
\* or the label ERR for status and modulation, for any other value.
C19_ClassificationTotal ==
    (sent # <<>>) =>
        LET p == rxpkt[sent[1].pkt - (received - nb_pkt)]
            rec == sent[1].rec
            row == fs[log_file][Len(fs[log_file])]
        IN /\ rec.BAD_WIDTH = ClaimedBandWidth(p.bandwidth)
           /\ rec.SF = ClaimedSF(p.modulation, p.datarate)
           /\ rec.CODE_RATE = ClaimedCodeRate(p.coderate)
           /\ row[8][2] = ClaimedStatus(p.status)
           /\ row[10][2] = ClaimedModulation(p.modulation)

\* C20: every iteration of the capture loop, idle or not, ends in one pass
\* over the rotation counter, which counts it; the wall clock is read and
\* the elapsed time compared on the iteration that brings the counter to 8,
\* and on no other; that pass resets the counter to 0, so that the counter
\* is within 0..7 at the top of every iteration.
C20_CheckEveryEighth ==
    /\ []((pc = "loop") => (time_check \in 0..(TIME_CHECK_PERIOD - 1)))
    /\ [][IF pc' = pc THEN time_check' = time_check
          ELSE /\ (pc = "loop" /\ pc' # "exited") => (pc' \in {"log", "sleep"})
               /\ (pc = "sleep") => (pc' = "check")
               /\ (pc \in {"log", "send"}) => (pc' \in {"log", "send", "check"})
               /\ (pc' = "loop") => (pc \in {"check", "module"})
               /\ (pc # "check") => (time_check' = time_check)
               /\ (pc = "check") =>
                     /\ pc' \in {"loop", "exited"}
                     /\ IF time_check = TIME_CHECK_PERIOD - 1
                        THEN /\ time_check' = 0
                             /\ now_time' \in Times
                             /\ (rotations' # rotations)
                                   <=> (now_time' - log_start_time
                                          > log_rotate_interval)
                        ELSE /\ time_check' = time_check + 1
                             /\ UNCHANGED logVars]_vars

\* the eighth iteration of a run that fetched a frame has read the clock,
\* found the log young enough and reset the counter
C20_Witness ==
    /\ pc = "loop" /\ time_check = 0
    /\ received > 0 /\ rotations = <<>>
    /\ now_time > log_start_time

\* one of the three flags the loop condition reads is set
ShutdownFlag == (quit_sig = 1) \/ (exit_sig = 1) \/ (stop # 0)

\* C21: once the quit flag, the exit flag or the stop flag is set, main
\* starts no new iteration at the top of the loop and the process
\* eventually exits; while a batch is being processed the flag interrupts
\* nothing: the frame at hand gets its row, and after a hand-off that did
\* not fail fatally the next frame of the batch is processed.
C21_CooperativeShutdown ==
    /\ [][(ShutdownFlag /\ pc' # pc) =>
            /\ (pc = "loop") => (pc' = "exited")
            /\ (pc = "log") =>
                  (pc' = "send" /\ rowlog' = Append(rowlog, PacketNumber))
            /\ (pc = "send" /\ ~FatalSendSeen' /\ i + 1 < nb_pkt) =>
                  (pc' = "log" /\ i' = i + 1)]_vars
    /\ ((ShutdownFlag /\ InLoop) ~> (pc = "exited"))

\* a flag was set while a batch of two frames was processed, and the
\* second frame has got its row
C21_Witness ==
    /\ ShutdownFlag /\ pc = "send"
    /\ nb_pkt = 2 /\ i = 1 /\ Len(rowlog) = 2

\* the last hand-off timed out
TimedOut == (sent # <<>>) /\ (sent[1].ret = "TRAP_E_TIMEOUT")

LastLine(name) == fs[name][Len(fs[name])]

\* C22: a hand-off that times out costs its own frame's record only: the
\* frame's row is already the last line of the log, the process goes on,
\* the next frame of the batch (if any) is the next one logged and handed
\* off, and after the last frame main goes on to the rotation check and
\* the next iteration.
C22_TimeoutSkipsOneHandOff ==
    [][/\ (pc = "send" /\ pc' # pc /\ TimedOut') =>
            /\ LastLine(log_file) = CsvRow(lgwm, fetch_timestamp, CurrentPacket)
            /\ rowlog[Len(rowlog)] = PacketNumber
            /\ sent'[1].pkt = PacketNumber
            /\ i' = i + 1
            /\ pc' = (IF i + 1 < nb_pkt THEN "log" ELSE "check")
            /\ exit_status' = "running"
            /\ UNCHANGED <<fs, log_buf, rowlog, pkt_in_log, nb_pkt, rxpkt>>
       /\ (pc = "log" /\ pc' # pc /\ TimedOut) =>
            /\ pc' = "send"
            /\ rowlog' = Append(rowlog, PacketNumber)
            /\ PacketNumber = sent[1].pkt + 1
       /\ (pc = "send" /\ pc' # pc /\ TimedOut /\ i > 0) =>
            /\ sent'[1].pkt = sent[1].pkt + 1
       /\ (pc = "check" /\ pc' # pc /\ TimedOut /\ exit_status' = "running") =>
            pc' = "loop"]_vars

\* the first frame of a batch of two timed out, and the second frame has
\* been logged since
C22_Witness ==
    /\ TimedOut /\ pc = "send" /\ nb_pkt = 2 /\ i = 1
    /\ sent[1].pkt = PacketNumber - 1
    /\ rowlog[Len(rowlog)] = PacketNumber

\* the rows of the batch at hand written so far: the last lines of the log
BatchRowsWritten == IF pc = "send" THEN i + 1 ELSE i

\* C23: all frames of a batch carry the one capture time the loop took for
\* the batch: while the batch is processed the UTC timestamp field of each
\* of its rows is that reading, and the capture timestamp of each of its
\* records is that same reading.
C23_OneCaptureTime ==
    (pc \in {"log", "send"}) =>
        /\ \A k \in 1..BatchRowsWritten :
              fs[log_file][Len(fs[log_file]) - k + 1][3] = Quoted(fetch_timestamp)
        /\ (sent # <<>> /\ sent[1].pkt > received - nb_pkt) =>
              FetchTimestamp(sent[1].rec.TIMESTAMP) = fetch_timestamp

\* the pass over global_conf.json has returned, and the document set
\* chan_Lora_std.bandwidth
StdBandwidthPassDone ==
    /\ PassDone /\ Head(todo)[2] = "global"
    /\ conf_files.global[1] = "chan_Lora_std.bandwidth"

\* the bandwidth the standard channel was submitted with
StdSubmittedBandwidth == hal_conf.rxif[IF_LORA_STD].bandwidth

\* C24 as stated: the bandwidth configured for the standard channel goes
\* through thresholds, a value above one tier's bound and not above the
\* next one's being submitted as the next tier (250kHz for 125001 to
\* 250000), and only a value above 500000 is submitted as undefined.
C24_StdBandwidthThresholds ==
    StdBandwidthPassDone =>
        LET hz == conf_files.global[2] \div 2
        IN /\ (hz \in 125001..250000) => (StdSubmittedBandwidth = "BW_250KHZ")
           /\ (hz \in 250001..500000) => (StdSubmittedBandwidth = "BW_500KHZ")
           /\ (hz \in 0..500000) => (StdSubmittedBandwidth # "BW_UNDEFINED")
           /\ (hz > 500000) => (StdSubmittedBandwidth = "BW_UNDEFINED")

\* C24, amended: the bandwidth configured for the standard channel,
\* converted to an unsigned 32-bit integer, is matched exactly: 500000,
\* 250000 and 125000 are submitted as their tiers and every other value,
\* between two tiers, below the first one or negative, as undefined.
C24_StdBandwidthExact ==
    StdBandwidthPassDone =>
        LET h == conf_files.global[2]
            hz == IF h >= 0 THEN h \div 2 ELSE -((-h) \div 2)
        IN StdSubmittedBandwidth =
              (IF hz \in {125000, 250000, 500000} THEN FskTierLabel(hz)
               ELSE "BW_UNDEFINED")

\* the pass has submitted the standard channel of a document whose
\* bandwidth is 125001: undefined, and not the 250kHz tier
C24_Witness ==
    /\ StdBandwidthPassDone
    /\ conf_files.global = <<"chan_Lora_std.bandwidth", 250002>>
    /\ hal_conf.rxif[IF_LORA_STD].enable
    /\ StdSubmittedBandwidth = "BW_UNDEFINED"

\* the radio type the claim gives a type field: a type on a prefix match,
\* unset otherwise
ClaimedRadioType(v) ==
    IF v.t # "JSONString" THEN "LGW_RADIO_TYPE_NONE"
    ELSE IF HasPrefix6(v.s, SX1255) THEN "LGW_RADIO_TYPE_SX1255"
    ELSE IF HasPrefix6(v.s, SX1257) THEN "LGW_RADIO_TYPE_SX1257"
    ELSE "LGW_RADIO_TYPE_NONE"

EnabledRadio(key) ==
    /\ PassedSection(key).t = "JSONObject"
    /\ BoolOrFalse(PassedSection(key).enable)

\* C25: a pass does not fail on the type field of an enabled radio chain,
\* whatever it holds: no pass over a well-formed document ends the process,
\* and a pass that returned has submitted every enabled chain once, with
\* the type of the prefix its type string matches (unset for any other
\* string, a value that is no string, or no type) and with the tx_enable
\* field that is read after it.
C25_RadioTypeTolerated ==
    /\ PassDied => ~PassedDoc.valid
    /\ PassDone =>
         \A key \in RadioKeys :
            EnabledRadio(key) =>
               /\ Cardinality(CallsFor(key)) = 1
               /\ \A k \in CallsFor(key) :
                     /\ last_pass[k].conf.enable
                     /\ last_pass[k].conf.type =
                            ClaimedRadioType(PassedSection(key).type)
                     /\ last_pass[k].conf.tx_enable =
                            BoolOrFalse(PassedSection(key).tx_enable)

\* what an iteration leaves alone before its rotation check
IdleFrame == <<fs, log_buf, rowlog, sent, received, payload, pkt_in_log,
               log_file, log_file_name, log_start_time, rotations,
               time_check>>

\* the rotation check of an iteration that fetched nothing writes no row and
\* hands nothing over, and changes the log only when it is due and rotates
IdleCheck ==
    (pc = "check" /\ pc' # pc /\ nb_pkt = 0) =>
        /\ UNCHANGED <<rowlog, sent, received, payload>>
        /\ (rotations' = rotations) =>
              UNCHANGED <<fs, log_buf, pkt_in_log, log_file, log_file_name,
                          log_start_time>>
        /\ (rotations' # rotations) => CheckDue(time_check + 1)

\* C26: an iteration whose fetch returns no frame suspends main once, for
\* the fixed 3 ms, and apart from that only runs the rotation check: the
\* fetch and the wait write no row, hand nothing to the sink, and leave
\* the row counter, the log file, its name and its start time as they were,
\* and so does the check unless it is due and rotates the log.
C26_EmptyBatchOnlyPaces ==
    [][/\ (pc = "loop" /\ pc' \notin {"loop", "exited"} /\ nb_pkt' = 0) =>
            /\ pc' = "sleep" /\ slept' = 0
            /\ UNCHANGED IdleFrame
       /\ (pc = "sleep" /\ pc' # pc) =>
            /\ pc' = "check" /\ slept' = SLEEP_NS
            /\ UNCHANGED IdleFrame
       /\ IdleCheck]_vars

\* C26, amended: the wait of an idle iteration lasts the fixed 3 ms unless
\* a handled signal ends it early, and a signal that does leaves one of the
\* shutdown flags set, so that no further iteration starts; the rest is as
\* stated: fetch, wait and check write no row, hand nothing to the sink, and
\* leave the row counter, the log file, its name and its start time as they
\* were unless the check is due and rotates the log.
C26_EmptyBatchPacesUnlessInterrupted ==
    [][/\ (pc = "loop" /\ pc' \notin {"loop", "exited"} /\ nb_pkt' = 0) =>
            /\ pc' = "sleep" /\ slept' = 0
            /\ UNCHANGED IdleFrame
       /\ (pc = "sleep" /\ pc' # pc) =>
            /\ pc' = "check"
            /\ \/ slept' = SLEEP_NS /\ UNCHANGED sigVars
               \/ slept' \in 0..(SLEEP_NS - 1) /\ ShutdownFlag'
            /\ UNCHANGED IdleFrame
       /\ IdleCheck]_vars

\* a signal has ended the wait of an idle iteration early, after a batch
\* was logged: the rotation check of the iteration is about to run
C26_Witness ==
    /\ pc = "check" /\ nb_pkt = 0 /\ slept = SLEEP_NS - 1
    /\ ShutdownFlag
    /\ pkt_in_log > 0 /\ sent # <<>>

\* the parameters of a section: the field of the document and the field of
\* the structure it is translated into
ParamsOf(key) ==
    CASE key[1] = "radio" ->
            {<<"enable", "enable">>, <<"freq", "freq_hz">>,
             <<"rssi_offset", "rssi_offset">>, <<"type", "type">>,
             <<"tx_enable", "tx_enable">>}
      [] key[1] = "chan_multiSF" ->
            {<<"enable", "enable">>, <<"radio", "rf_chain">>, <<"if", "freq_hz">>}
      [] key[1] = "chan_Lora_std" ->
            {<<"enable", "enable">>, <<"radio", "rf_chain">>, <<"if", "freq_hz">>,
             <<"bandwidth", "bandwidth">>, <<"spread_factor", "datarate">>}
      [] key[1] = "chan_FSK" ->
            {<<"enable", "enable">>, <<"radio", "rf_chain">>, <<"if", "freq_hz">>,
             <<"bandwidth", "bandwidth">>, <<"datarate", "datarate">>}

\* the structure the front end holds for the chain or channel of `key`
HeldFor(held, key) ==
    IF key[1] = "radio" THEN held.rxrf[key[2]] ELSE held.rxif[Target(key)[2]]

Defined(v) == v.t # "JSONError"

\* main has parsed global_conf.json and then local_conf.json, both with an
\* SX1301_conf, and the front end took every call
BothParsed ==
    /\ pc = "start" /\ hal_rejects = {}
    /\ ~Document(conf_files.debug).exists
    /\ Document(conf_files.global).SX1301_conf.present
    /\ Document(conf_files.local).SX1301_conf.present

\* C27: after global_conf.json and local_conf.json have both been parsed,
\* every board, chain and channel parameter that the global document
\* defines and the local one does not is held by the front end with the
\* value the global document gave it.
C27_LocalOverridesDefinedOnly ==
    BothParsed =>
        LET g == Document(conf_files.global).SX1301_conf
            l == Document(conf_files.local).SX1301_conf
            global_only ==
                ApplyCalls(ZeroHalConf,
                           ParseSX1301Result(Document(conf_files.global),
                                             "nomatch", "wraps").calls)
        IN /\ \A p \in {"lorawan_public", "clksrc"} :
                (Defined(g[p]) /\ ~Defined(l[p])) =>
                    hal_conf.board[p] = global_only.board[p]
           /\ \A key \in SectionKeys : \A p \in ParamsOf(key) :
                (Defined(g.sec[key][p[1]]) /\ ~Defined(l.sec[key][p[1]])) =>
                    HeldFor(hal_conf, key)[p[2]] = HeldFor(global_only, key)[p[2]]

\* the frame rows among `lines`: the lines that are no header
FrameRows(lines) == Cardinality({k \in 1..Len(lines) : lines[k] # HeaderRow})

\* this step is a rotation: the log was closed and open_log() called
Rotates == rotations' # rotations

\* C28: while main runs on an open log, pkt_in_log is the number of frame
\* rows written to that file; the counter moves only by one, with the row
\* LogPacket appends, and to zero, in the step that rotates the log; and
\* the count a rotation reports for the file it closes is the number of
\* frame rows that file holds.
C28_CounterIsRowsOfOpenFile ==
    /\ [](LogInUse => (pkt_in_log = FrameRows(fs[log_file] \o log_buf)))
    /\ [][/\ (pc = "log" /\ pc' # pc) =>
               /\ pkt_in_log' = pkt_in_log + 1
               /\ fs'[log_file] = Append(fs[log_file] \o log_buf,
                                         CsvRow(lgwm, fetch_timestamp, CurrentPacket))
          /\ (pkt_in_log' # pkt_in_log) => ((pc = "log") \/ Rotates)
          /\ Rotates =>
               /\ pkt_in_log' = 0
               /\ rotations' = Append(rotations, [name |-> log_file,
                                                  count |-> pkt_in_log])
               /\ FrameRows(fs'[log_file]) = pkt_in_log
               /\ (log_file' # NoName) =>
                     (log_file' # log_file /\ FrameRows(fs'[log_file']) = 0)]_vars

\* a log that took one row was rotated with the count 1 reported, and the
\* new file has taken a row since: the counter, back at zero at the
\* rotation, is at 1
C28_Witness ==
    /\ LogInUse /\ rotations # <<>> /\ rotations[1].count = 1
    /\ FrameRows(fs[rotations[1].name]) = 1
    /\ log_file # rotations[1].name
    /\ pkt_in_log = 1 /\ pc = "check"
    /\ fs[log_file] \o log_buf = <<HeaderRow, LastLine(log_file)>>

\* the log stream is open
LogOpen == log_file # NoName

\* C29: the log goes from closed to open, from open to open by rotation,
\* and to closed at the end.  Main is in the capture loop only with an open
\* log, opened before the loop was entered; a row is written only to the
\* open log, and no other file is written; a rotation flushes and closes
\* the old file without a row in between and leaves a different file open,
\* or ends the process; the log is closed only as the process ends, and
\* nothing is written or closed after that.
C29_LogLifecycle ==
    /\ [](InLoop => (LogOpen /\ log_file \in DOMAIN fs))
    /\ []((pc \in {"select", "parse", "start", "open"}) => ~LogOpen)
    /\ [][/\ (rowlog' # rowlog) => (LogOpen /\ log_file' = log_file)
          /\ \A name \in DOMAIN fs :
                (fs'[name] # fs[name]) => (LogOpen /\ name = log_file)
          /\ Rotates =>
                /\ rowlog' = rowlog
                /\ fs'[log_file] = fs[log_file] \o log_buf
                /\ \/ LogOpen' /\ log_file' # log_file /\ pc' = "loop"
                   \/ pc' = "exited"
          /\ (LogOpen /\ log_file' # log_file /\ ~Rotates) => (pc' = "exited")
          /\ (LogOpen /\ ~LogOpen') => (pc' = "exited")
          /\ (pc = "exited") => UNCHANGED <<fs, log_buf, log_file, rowlog>>]_vars

\* a log that took a row was rotated, and the file opened by the rotation
\* was closed as the loop ended
C29_Witness ==
    /\ pc = "exited" /\ exit_status = "0" /\ ~LogOpen
    /\ rotations # <<>> /\ rotations[1].count > 0
    /\ Cardinality(DOMAIN fs) >= 2

\* this step is a pass that calls lgw_*_setconf
SubmitsConf ==
    /\ pc = "parse" /\ todo # <<>> /\ Head(todo)[1] = "SX1301"
    /\ pc' # pc \/ todo' # todo
    /\ last_pass' # <<>>

\* this step calls lgw_start()
CallsStart == (pc = "start") /\ (pc' # pc)

\* this step calls lgw_receive()
CallsReceive == (pc = "loop") /\ (pc' # pc) /\ LoopCondition

\* the process has not ended
Running == exit_status = "running"

\* the front end answered a call of the last pass with an error
SetConfRefused == \E k \in 1..Len(last_pass) : last_pass[k].target \in hal_rejects

\* C30: the front end is driven in the order setconf, start, receive, stop.
\* Every setconf call is made before lgw_start() is called and none after;
\* lgw_receive() is called only on a front end that lgw_start() started
\* and that was not stopped; a refused setconf call does not end the
\* process, so that lgw_start() is still called; a failing lgw_start()
\* ends the process before any lgw_receive().
C30_FrontEndOrder ==
    /\ [](hal_started => (pc \notin {"select", "parse", "start"}))
    /\ []((hal_stops > 0) => (pc = "exited" /\ ~hal_started /\ hal_stops = 1))
    /\ []((pc = "parse" /\ SetConfRefused) => Running)
    /\ [][/\ SubmitsConf =>
                /\ ~hal_started /\ hal_stops = 0
                /\ pc' \in {"parse", "start"}
                /\ Running'
          /\ CallsStart =>
                /\ todo = <<>>
                /\ IF hal_started' THEN pc' = "open" /\ Running'
                   ELSE pc' = "exited" /\ exit_status' = "EXIT_FAILURE"
          /\ (pc = "parse" /\ todo' = <<>>) => (pc' = "start")
          /\ CallsReceive => (hal_started /\ hal_stops = 0)
          /\ (~hal_started /\ pc \notin {"start"}) => ~hal_started'
          /\ (hal_started \/ hal_stops > 0) => (last_pass' = last_pass /\ hal_conf' = hal_conf)
         ]_vars

\* the front end refused a setconf call of the pass, was started all the
\* same, and has returned a batch
C30_Witness ==
    /\ SetConfRefused /\ hal_started /\ hal_stops = 0
    /\ pc = "log" /\ received > 0

====
